---- MODULE Spec2Model ----
(***************************************************************************)
(* State-machine model of the persistence-backed analytics operations of   *)
(* app.py (SQLite tables, the handlers that write them and the analyses    *)
(* that read them), of the rule-based classifiers of                       *)
(* ml_engine/performance_analyzer.py and process_data.py, of the attempt   *)
(* aggregators of ml_engine/data_processor.py and process_data.py, and of  *)
(* the simple mentor matchers of ml_engine/mentor_matcher.py and           *)
(* ml_analyzer.py.                                                         *)
(*                                                                         *)
(* Tables whose rows carry an AUTOINCREMENT id and no UNIQUE constraint    *)
(* are bags of rows (the id and created_at columns are left out, so two    *)
(* rows that differ only in them are two copies of one bag element).       *)
(* Tables with a UNIQUE key are sets of rows.  Averages, compatibility     *)
(* scores and improvement percentages are exact rationals <<num, den>>     *)
(* in lowest terms with den > 0.                                           *)
(***************************************************************************)
EXTENDS Bags, FiniteSets, Integers, Sequences, TLC

VARIABLES students, courses, scores, recommendations, pairings,
          course_completions, improvement_tracking, dbLocked, event, probe

vars == <<students, courses, scores, recommendations, pairings,
          course_completions, improvement_tracking, dbLocked, event, probe>>

tables == <<students, courses, scores, recommendations, pairings,
            course_completions, improvement_tracking>>

(***************************************************************************)
(* Bounds of the model.                                                    *)
(***************************************************************************)
PairMaxRows == 4      \* stored attempts in the pairing specification
PairMaxDf == 1        \* rows of one uploaded file in the pairing specification
RecMaxRows == 3       \* stored attempts in the recommendation specification
RecMaxDf == 2         \* rows of one uploaded file in the recommendation specification
ProgMaxRows == 2      \* stored attempts in the progress specification
ProgMaxImp == 2       \* improvement rows in the progress specification
ProbeMaxScore == 105  \* largest score handed to the classifiers
AnMaxRows == 3        \* stored attempts in the analysis specification
AnMaxDf == 1          \* rows of one uploaded file in the analysis specification
AggMaxLen == 2        \* rows of the dataset in the aggregation specification
MatchMaxLen == 4      \* rows of the frame in the matching specification
StoreMaxRows == 4     \* stored attempts in the store specification
StoreMaxDf == 1       \* rows of one uploaded file in the store specification
StoreMaxImp == 3      \* improvement rows in the store specification
RecoMaxLen == 2       \* weak subjects handed to the recommender
KmMaxLen == 3         \* samples handed to the clustering classifier
KmMaxClusters == 4    \* largest cluster count asked of the clustering classifier
SimMaxLen == 4        \* fetched score rows handed to the similarity strategies

(***************************************************************************)
(* Exact rational arithmetic.                                              *)
(***************************************************************************)
Abs(n) == IF n < 0 THEN -n ELSE n

RECURSIVE Gcd(_, _)
Gcd(a, b) == IF b = 0 THEN a ELSE Gcd(b, a % b)

Rat(n, d) ==
    LET g == Gcd(Abs(n), Abs(d))
        s == IF d < 0 THEN -1 ELSE 1
    IN  <<(s * n) \div g, (s * d) \div g>>

RatInt(n) == <<n, 1>>
RatAdd(a, b) == Rat(a[1] * b[2] + b[1] * a[2], a[2] * b[2])
RatSub(a, b) == Rat(a[1] * b[2] - b[1] * a[2], a[2] * b[2])
RatMul(a, b) == Rat(a[1] * b[1], a[2] * b[2])
RatLt(a, b) == a[1] * b[2] < b[1] * a[2]
RatLe(a, b) == a[1] * b[2] <= b[1] * a[2]
RatMin(a, b) == IF RatLe(a, b) THEN a ELSE b
RatMax(a, b) == IF RatLe(a, b) THEN b ELSE a

(***************************************************************************)
(* Bags of rows.                                                           *)
(***************************************************************************)
BagWhere(B, P(_)) == [r \in {x \in DOMAIN B : P(x)} |-> B[r]]

RECURSIVE BagSumOver(_, _, _)
BagSumOver(B, S, f) ==
    IF S = {} THEN 0
    ELSE LET r == CHOOSE x \in S : TRUE
         IN  f[r] * B[r] + BagSumOver(B, S \ {r}, f)

SumScore(B) == BagSumOver(B, DOMAIN B, [r \in DOMAIN B |-> r.score])
AvgScore(B) == Rat(SumScore(B), BagCardinality(B))
MinScore(B) == CHOOSE m \in {r.score : r \in DOMAIN B} :
                   \A r \in DOMAIN B : m <= r.score
MaxScore(B) == CHOOSE m \in {r.score : r \in DOMAIN B} :
                   \A r \in DOMAIN B : m >= r.score

RECURSIVE BagOfSeq(_)
BagOfSeq(s) == IF s = <<>> THEN EmptyBag
               ELSE SetToBag({Head(s)}) (+) BagOfSeq(Tail(s))

\* the bag obtained by rewriting every row r of B to f(r)
BagMap(B, f(_)) ==
    LET img == {f(r) : r \in DOMAIN B}
        cnt(y) == BagSumOver(B, {r \in DOMAIN B : f(r) = y}, [r \in DOMAIN B |-> 1])
    IN  [y \in img |-> cnt(y)]

(***************************************************************************)
(* Values.                                                                 *)
(***************************************************************************)
NULL == "NULL"

\* 'Machine Learning' in course_name (strings are atomic here, so the
\* substring test is tabulated over the course names in use)
ContainsMachineLearning(course_name) ==
    course_name \in {"Machine Learning", "Applied Machine Learning"}

\* sort order of course ids (pandas groupby sorts its keys)
CourseIdOrder == <<"c1", "c2">>

Dfs(rows, maxlen) == UNION {[1..n -> rows] : n \in 1..maxlen}

Event(op, ok, sid, cid) ==
    [op |-> op, ok |-> ok, student_id |-> sid, course_id |-> cid]

NoProbe == [fn |-> "none"]

(***************************************************************************)
(* process_uploaded_data: INSERT OR IGNORE of students and courses, plain  *)
(* INSERT of every attempt.                                                *)
(***************************************************************************)
RECURSIVE InsertStudents(_, _)
InsertStudents(tbl, df) ==
    IF df = <<>> THEN tbl
    ELSE LET r == Head(df)
             clash == \E t \in tbl : t.student_id = r.student_id \/ t.email = r.email
             row == [student_id |-> r.student_id, email |-> r.email]
         IN  InsertStudents(IF clash THEN tbl ELSE tbl \cup {row}, Tail(df))

RECURSIVE InsertCourses(_, _)
InsertCourses(tbl, df) ==
    IF df = <<>> THEN tbl
    ELSE LET r == Head(df)
             clash == \E t \in tbl : t.course_id = r.course_id
             row == [course_id |-> r.course_id, course_name |-> r.course_name]
         IN  InsertCourses(IF clash THEN tbl ELSE tbl \cup {row}, Tail(df))

ScoreRow(r) == [student_id |-> r.student_id, course_id |-> r.course_id,
                attempt_timestamp |-> r.attempt_timestamp,
                score |-> r.score, max_score |-> r.max_score]

\* the insert written as a replacement of the earlier attempts of the
\* row's student in the row's course
RECURSIVE InsertScores_replace(_, _)
InsertScores_replace(tbl, df) ==
    IF df = <<>> THEN tbl
    ELSE InsertScores_replace(
             BagWhere(tbl, LAMBDA r : ~(r.student_id = Head(df).student_id
                                        /\ r.course_id = Head(df).course_id))
             (+) SetToBag({ScoreRow(Head(df))}), Tail(df))

RECURSIVE InsertScores(_, _)
InsertScores(tbl, df) ==
    IF df = <<>> THEN tbl
    ELSE InsertScores(tbl (+) SetToBag({ScoreRow(Head(df))}), Tail(df))

(***************************************************************************)
(* generate_mentor_pairings, over the tables st (students), co (courses)   *)
(* and sc (scores) as the connection sees them.                            *)
(***************************************************************************)
ScoresOfStudent(sc, sid) == BagWhere(sc, LAMBDA r : r.student_id = sid)
ScoresOfStudentCourse(sc, sid, cid) ==
    BagWhere(sc, LAMBDA r : r.student_id = sid /\ r.course_id = cid)
ScoresOfGroup(sc, sid, cid, mx) ==
    BagWhere(sc, LAMBDA r : r.student_id = sid /\ r.course_id = cid /\ r.max_score = mx)

\* students JOIN scores GROUP BY student: those with avg_score < 60
weak_students(st, sc) ==
    {t.student_id : t \in {u \in st : /\ ScoresOfStudent(sc, u.student_id) # EmptyBag
                                      /\ RatLt(AvgScore(ScoresOfStudent(sc, u.student_id)), RatInt(60))}}

\* scores JOIN courses WHERE student_id = ? GROUP BY course_id, course_name,
\* max_score HAVING avg_score < 60
weak_courses(co, sc, sid) ==
    LET keys == {<<r.course_id, r.max_score>> : r \in DOMAIN ScoresOfStudent(sc, sid)}
        joined == {k \in keys : \E c \in co : c.course_id = k[1]}
        grp(k) == [course_id |-> k[1], total_possible |-> k[2],
                   avg_score |-> AvgScore(ScoresOfGroup(sc, sid, k[1], k[2]))]
    IN  {g \in {grp(k) : k \in joined} : RatLt(g.avg_score, RatInt(60))}

\* students JOIN scores WHERE course_id = ? GROUP BY student HAVING avg_score >= 75
potential_mentors(st, sc, cid) ==
    {t.student_id : t \in {u \in st :
        /\ ScoresOfStudentCourse(sc, u.student_id, cid) # EmptyBag
        /\ RatLe(RatInt(75), AvgScore(ScoresOfStudentCourse(sc, u.student_id, cid)))}}

MentorQueryLimit == 5
MentorsPerCourse == 2
Min2(a, b) == IF a <= b THEN a ELSE b

\* the mentors the loop reaches: the first MentorsPerCourse rows of the
\* ORDER BY avg_score DESC LIMIT 5 result; rows of equal avg_score come in an
\* order SQL leaves open, so every choice consistent with the order is possible
MentorChoices(st, sc, cid) ==
    LET P == potential_mentors(st, sc, cid)
        avg(m) == AvgScore(ScoresOfStudentCourse(sc, m, cid))
        n == Min2(MentorsPerCourse, Min2(MentorQueryLimit, Cardinality(P)))
    IN  {M \in SUBSET P : /\ Cardinality(M) = n
                          /\ \A m \in M, o \in P \ M : RatLe(avg(o), avg(m))}

\* the formula without its upper cap
compatibility_score_uncapped(mentor_avg, weak_avg) ==
    RatMax(RatInt(50), RatAdd(RatInt(70), RatMul(RatSub(mentor_avg, weak_avg), <<1, 2>>)))

\* min(100, max(50, 70 + (score_diff * 0.5)))
compatibility_score(mentor_avg, weak_avg) ==
    LET score_diff == RatSub(mentor_avg, weak_avg)
    IN  RatMin(RatInt(100), RatMax(RatInt(50), RatAdd(RatInt(70), RatMul(score_diff, <<1, 2>>))))

\* the rows one run inserts, given the mentors picked per course
NewPairings(st, co, sc, pick) ==
    LET triples == {<<w, g, m>> \in weak_students(st, sc)
                                    \X (UNION {weak_courses(co, sc, w) : w \in weak_students(st, sc)})
                                    \X {t.student_id : t \in st} :
                        /\ g \in weak_courses(co, sc, w)
                        /\ m \in pick[g.course_id]}
        row(t) == [course_id |-> t[2].course_id,
                   weak_student_id |-> t[1],
                   mentor_id |-> t[3],
                   compatibility_score |->
                       compatibility_score(AvgScore(ScoresOfStudentCourse(sc, t[3], t[2].course_id)),
                                           t[2].avg_score)]
    IN  BagMap(SetToBag(triples), row)

MentorPicks(st, co, sc) ==
    LET cids == {c.course_id : c \in co}
    IN  {f \in [cids -> SUBSET {t.student_id : t \in st}] :
            \A c \in cids : f[c] \in MentorChoices(st, sc, c)}

\* INSERT OR IGNORE INTO pairings: the table has no UNIQUE constraint, so no
\* insert is ever ignored
generate_mentor_pairings(pr, st, co, sc, pick) == pr (+) NewPairings(st, co, sc, pick)

(***************************************************************************)
(* track_course_completion and mark_course_completed, as table rewrites.   *)
(***************************************************************************)
Now == "now"     \* the value of datetime.now(); no operation compares dates

\* a second row inserted where the existing one is to be updated
track_course_completion_insert_only(cc, sid, cid, pct, status, est) ==
    cc (+) SetToBag({[student_id |-> sid, course_id |-> cid,
                      completion_date |-> NULL,
                      completion_status |-> status,
                      completion_percentage |-> pct,
                      estimated_completion_time |-> est]})

track_course_completion(cc, sid, cid, pct, status, est) ==
    IF \E r \in DOMAIN cc : r.student_id = sid /\ r.course_id = cid
    THEN BagMap(cc, LAMBDA r :
             IF r.student_id = sid /\ r.course_id = cid
             THEN [r EXCEPT !.completion_percentage = pct,
                            !.completion_status = status,
                            !.estimated_completion_time = est]
             ELSE r)
    ELSE cc (+) SetToBag({[student_id |-> sid, course_id |-> cid,
                           completion_date |-> NULL,
                           completion_status |-> status,
                           completion_percentage |-> pct,
                           estimated_completion_time |-> est]})

\* the update restricted to the rows still in progress
mark_completed_update_in_progress_only(cc, sid, cid, date) ==
    BagMap(cc, LAMBDA r :
        IF r.student_id = sid /\ r.course_id = cid /\ r.completion_status = "in_progress"
        THEN [r EXCEPT !.completion_status = "completed", !.completion_date = date]
        ELSE r)

\* UPDATE course_completions SET completion_status = 'completed', completion_date = ?
mark_completed_update(cc, sid, cid, date) ==
    BagMap(cc, LAMBDA r :
        IF r.student_id = sid /\ r.course_id = cid
        THEN [r EXCEPT !.completion_status = "completed", !.completion_date = date]
        ELSE r)

\* the change taken relative to the final instead of the initial score
improvement_percentage_of_final(initial_score, final_score) ==
    IF initial_score # 0
    THEN RatMul(Rat(final_score - initial_score, final_score), RatInt(100))
    ELSE RatInt(0)

\* ((final_score - initial_score) / initial_score * 100) if initial_score != 0 else 0
improvement_percentage(initial_score, final_score) ==
    IF initial_score # 0
    THEN RatMul(Rat(final_score - initial_score, initial_score), RatInt(100))
    ELSE RatInt(0)

\* the guard written as a truth test (if initial_score and final_score), which
\* a score of 0 fails
improvement_rows_truthy(sc, sid, cid, date) ==
    LET mine == ScoresOfStudentCourse(sc, sid, cid)
    IN  IF mine = EmptyBag \/ MinScore(mine) = 0 \/ MaxScore(mine) = 0
        THEN EmptyBag
        ELSE SetToBag({[student_id |-> sid, course_id |-> cid,
                        initial_score |-> MinScore(mine),
                        final_score |-> MaxScore(mine),
                        improvement_percentage |->
                            improvement_percentage(MinScore(mine), MaxScore(mine)),
                        completion_date |-> date]})

\* SELECT MIN(score), SELECT MAX(score), and the INSERT they guard
improvement_rows(sc, sid, cid, date) ==
    LET mine == ScoresOfStudentCourse(sc, sid, cid)
    IN  IF mine = EmptyBag
        THEN EmptyBag      \* MIN and MAX are NULL: nothing is inserted
        ELSE SetToBag({[student_id |-> sid, course_id |-> cid,
                        initial_score |-> MinScore(mine),
                        final_score |-> MaxScore(mine),
                        improvement_percentage |->
                            improvement_percentage(MinScore(mine), MaxScore(mine)),
                        completion_date |-> date]})

\* the insert written as a replacement of the pair's earlier rows
insert_improvement_replace(it, sc, sid, cid, date) ==
    BagWhere(it, LAMBDA r : ~(r.student_id = sid /\ r.course_id = cid))
        (+) improvement_rows(sc, sid, cid, date)

\* INSERT INTO improvement_tracking: rows are only ever added
insert_improvement(it, sc, sid, cid, date) == it (+) improvement_rows(sc, sid, cid, date)

(***************************************************************************)
(* generate_initial_analytics: the (student, course) groups of the         *)
(* uploaded frame whose mean score classifies as 'Low', in loop order.     *)
(***************************************************************************)
performance_level(avg_score) ==
    IF RatLe(RatInt(75), avg_score) THEN "High"
    ELSE IF RatLe(RatInt(60), avg_score) THEN "Medium"
    ELSE "Low"

RECURSIVE UniqueStudents(_, _)
UniqueStudents(df, seen) ==
    IF df = <<>> THEN <<>>
    ELSE IF Head(df).student_id \in seen THEN UniqueStudents(Tail(df), seen)
    ELSE <<Head(df).student_id>> \o UniqueStudents(Tail(df), seen \cup {Head(df).student_id})

DfGroup(df, sid, cid) ==
    BagWhere(BagOfSeq(df), LAMBDA r : r.student_id = sid /\ r.course_id = cid)

LowCourses(df, sid) ==
    SelectSeq(CourseIdOrder, LAMBDA cid :
        /\ DfGroup(df, sid, cid) # EmptyBag
        /\ performance_level(AvgScore(DfGroup(df, sid, cid))) = "Low")

RECURSIVE LowPairsOf(_, _)
LowPairsOf(df, ids) ==
    IF ids = <<>> THEN <<>>
    ELSE [i \in 1..Len(LowCourses(df, Head(ids))) |-> <<Head(ids), LowCourses(df, Head(ids))[i]>>]
         \o LowPairsOf(df, Tail(ids))

LowPairs(df) == LowPairsOf(df, UniqueStudents(df, {}))

(***************************************************************************)
(* Rule-based classification: PerformanceAnalyzer.classify_performance     *)
(* (ml_engine/performance_analyzer.py) and categorize_performance          *)
(* (process_data.py).                                                      *)
(***************************************************************************)
\* the Medium band closed below 80 instead of at 80
classify_performance_strict(score) ==
    IF score < 60 THEN "Poor"
    ELSE IF score < 80 THEN "Medium"
    ELSE "High"

classify_performance(score) ==
    IF score < 60 THEN "Poor"
    ELSE IF score <= 80 THEN "Medium"
    ELSE "High"

categorize_performance(score) ==
    IF score < 60 THEN "Poor"
    ELSE IF score <= 80 THEN "Medium"
    ELSE "High"

(***************************************************************************)
(* Initial state: init_db has created the empty tables.                    *)
(***************************************************************************)
Init ==
    /\ students = {}
    /\ courses = {}
    /\ scores = EmptyBag
    /\ recommendations = EmptyBag
    /\ pairings = EmptyBag
    /\ course_completions = EmptyBag
    /\ improvement_tracking = EmptyBag
    /\ dbLocked = FALSE
    /\ event = Event("init", TRUE, NULL, NULL)
    /\ probe = NoProbe

(***************************************************************************)
(* The connection generate_initial_analytics or update_recommendations     *)
(* opened stays referenced by the traceback of the exception that ended    *)
(* the handler; it keeps SQLite's write lock, with its uncommitted rows,   *)
(* until the interpreter's cycle collector closes it (which rolls back).   *)
(* dbLocked says such a connection exists.  While it does, every write of  *)
(* another connection fails with 'database is locked'.                     *)
(***************************************************************************)
CollectGarbage ==
    /\ dbLocked
    /\ dbLocked' = FALSE
    /\ event' = Event("gc", TRUE, NULL, NULL)
    /\ UNCHANGED <<tables, probe>>

\* where, within one upload request, the collector may run
GcPoints == {"none", "courses", "scores", "analytics"}

(***************************************************************************)
(* POST /upload with a file that has every required column:                *)
(* process_uploaded_data(df), then generate_initial_analytics(df).         *)
(* has_tags: the file has the optional topic_tags column.                  *)
(***************************************************************************)
Upload(df, has_tags, gc) ==
    LET \* is the stale lock still held when each phase writes?
        lockStudents == dbLocked
        lockCourses == dbLocked /\ gc # "courses"
        lockScores == dbLocked /\ gc \notin {"courses", "scores"}
        lockRec == lockScores
        lockAfter == dbLocked /\ gc = "none"
        \* process_uploaded_data: a failing insert is swallowed (except: pass)
        st == IF lockStudents THEN students ELSE InsertStudents(students, df)
        co == IF lockCourses THEN courses ELSE InsertCourses(courses, df)
        sc == IF lockScores THEN scores ELSE InsertScores(scores, df)
        low == LowPairs(df)
        fail(locked) ==
            /\ event' = Event("upload", FALSE, NULL, NULL)
            /\ dbLocked' = locked
            /\ pairings' = pairings
        finish(locked) ==
            /\ event' = Event("upload", TRUE, NULL, NULL)
            /\ dbLocked' = locked
            /\ \E pick \in MentorPicks(st, co, sc) :
                   pairings' = IF locked THEN pairings
                               ELSE generate_mentor_pairings(pairings, st, co, sc, pick)
    IN  /\ gc \in (IF dbLocked THEN GcPoints ELSE {"none"})
        /\ students' = st
        /\ courses' = co
        /\ scores' = sc
        \* the INSERT OR IGNORE INTO recommendations is never committed: once it
        \* succeeds its connection holds the write lock, and the write of
        \* track_course_completion, on a connection of its own, times out
        /\ recommendations' = recommendations
        /\ UNCHANGED <<improvement_tracking, probe>>
        /\ IF low = <<>>
           THEN /\ finish(lockAfter)
                /\ course_completions' = course_completions
           ELSE IF ~has_tags
           THEN \* course_data.iloc[0]['topic_tags'] raises KeyError
                /\ fail(lockRec)
                /\ course_completions' = course_completions
           ELSE IF ~lockRec \/ lockAfter
           THEN \* the recommendation insert took the lock, or the stale lock
                \* is still held: track_course_completion raises
                /\ fail(TRUE)
                /\ course_completions' = course_completions
           ELSE \* the recommendation insert failed on the stale lock, which was
                \* released before track_course_completion wrote
                /\ course_completions' =
                       track_course_completion(course_completions, low[1][1], low[1][2],
                                               0, "recommended", NULL)
                /\ IF Len(low) > 1 THEN fail(TRUE) ELSE finish(FALSE)

(***************************************************************************)
(* POST /upload of a file with the columns cols: the required columns are  *)
(* validated before anything is stored.                                    *)
(***************************************************************************)
required_columns ==
    {"student_id", "name", "email", "course_id", "course_name", "attempt_id",
     "attempt_timestamp", "score", "max_score", "grade"}

missing_columns(cols) == required_columns \ cols

\* the response {'error': 'Missing required columns: [...]'}
RejectedUpload(cols) ==
    [op |-> "upload", ok |-> FALSE, student_id |-> NULL, course_id |-> NULL,
     columns |-> cols,
     error |-> [message |-> "Missing required columns",
                missing_columns |-> missing_columns(cols)]]

\* the attempts stored before the columns are looked at
UploadFile_store_first(df, cols, gc) ==
    /\ gc = "none"
    /\ scores' = InsertScores(scores, df)
    /\ event' = RejectedUpload(cols)
    /\ UNCHANGED <<students, courses, recommendations, pairings, course_completions,
                   improvement_tracking, dbLocked, probe>>

UploadFile(df, cols, gc) ==
    IF missing_columns(cols) # {}
    THEN /\ gc = "none"
         /\ event' = RejectedUpload(cols)
         /\ UNCHANGED <<tables, dbLocked, probe>>
    ELSE Upload(df, "topic_tags" \in cols, gc)

(***************************************************************************)
(* POST /api/progress/track and /api/progress/update.                      *)
(***************************************************************************)
\* the request, with the fields of its JSON body
TrackEvent(ok, sid, cid, pct, status, est) ==
    [op |-> "track", ok |-> ok, student_id |-> sid, course_id |-> cid,
     completion_percentage |-> pct, status |-> status, estimated_time |-> est]

TrackProgress(sid, cid, pct, status, est) ==
    /\ UNCHANGED <<students, courses, scores, recommendations, pairings,
                   improvement_tracking, dbLocked, probe>>
    /\ IF dbLocked
       THEN /\ event' = TrackEvent(FALSE, sid, cid, pct, status, est)
            /\ course_completions' = course_completions
       ELSE /\ event' = TrackEvent(TRUE, sid, cid, pct, status, est)
            /\ course_completions' =
                   track_course_completion(course_completions, sid, cid, pct, status, est)

(***************************************************************************)
(* POST /api/progress/complete: mark_course_completed(student_id,          *)
(* course_id).                                                             *)
(***************************************************************************)
MarkCompletion(sid, cid) ==
    /\ UNCHANGED <<students, courses, scores, recommendations, pairings, dbLocked, probe>>
    /\ IF dbLocked
       THEN /\ event' = Event("complete", FALSE, sid, cid)
            /\ UNCHANGED <<course_completions, improvement_tracking>>
       ELSE /\ event' = Event("complete", TRUE, sid, cid)
            /\ course_completions' = mark_completed_update(course_completions, sid, cid, Now)
            /\ improvement_tracking' =
                   insert_improvement(improvement_tracking, scores, sid, cid, Now)

(***************************************************************************)
(* get_student_strengths_weaknesses: the student's attempts joined with    *)
(* courses, grouped by (course_id, course_name, max_score).                *)
(***************************************************************************)
score_groups(co, sc, sid) ==
    LET keys == {<<r.course_id, r.max_score>> : r \in DOMAIN ScoresOfStudent(sc, sid)}
        name(cid) == (CHOOSE c \in co : c.course_id = cid).course_name
    IN  {[course_id |-> k[1], course_name |-> name(k[1]), total_possible |-> k[2],
          avg_score |-> AvgScore(ScoresOfGroup(sc, sid, k[1], k[2]))] :
            k \in {j \in keys : \E c \in co : c.course_id = j[1]}}

\* percentage = (avg_score / total_possible) * 100, for total_possible > 0
percentage(g) == RatMul(g.avg_score, Rat(100, g.total_possible))

strengths(co, sc, sid) ==
    {g \in score_groups(co, sc, sid) :
        g.total_possible > 0 /\ RatLe(RatInt(75), percentage(g))}

weaknesses(co, sc, sid) ==
    {g \in score_groups(co, sc, sid) :
        /\ g.total_possible > 0
        /\ ~RatLe(RatInt(75), percentage(g))
        /\ RatLt(percentage(g), RatInt(60))}

(***************************************************************************)
(* generate_course_recommendations.  Its second loop runs, for a weakness  *)
(* whose course name contains 'Machine Learning', a query that selects the *)
(* unqualified column course_id from scores JOIN courses; SQLite rejects   *)
(* it ('ambiguous column name'), so the function raises there.             *)
(***************************************************************************)
course_recommendations_raise(co, sc, sid) ==
    \E w \in weaknesses(co, sc, sid) : ContainsMachineLearning(w.course_name)

\* one entry per weakness, priority 'High'
course_recommendations(co, sc, sid) ==
    BagMap(SetToBag(weaknesses(co, sc, sid)), LAMBDA w :
        [student_id |-> sid, course_id |-> w.course_id,
         recommendation |-> <<"Study foundational topics in", w.course_name>>,
         priority |-> "High"])

(***************************************************************************)
(* update_recommendations: for every row of students, DELETE the student's *)
(* recommendations and INSERT the recomputed ones; one commit at the end.  *)
(***************************************************************************)
RECURSIVE BagSumOfBags(_, _)
BagSumOfBags(S, f) ==
    IF S = {} THEN EmptyBag
    ELSE LET x == CHOOSE y \in S : TRUE
         IN  f[x] (+) BagSumOfBags(S \ {x}, f)

delete_recommendations(recs, sids) ==
    BagWhere(recs, LAMBDA r : r.student_id \notin sids)

update_recommendations(recs, st, co, sc) ==
    LET sids == {t.student_id : t \in st}
    IN  delete_recommendations(recs, sids)
        (+) BagSumOfBags(sids, [sid \in sids |-> course_recommendations(co, sc, sid)])

UpdateRecommendations ==
    /\ UNCHANGED <<students, courses, scores, pairings, course_completions,
                   improvement_tracking, probe>>
    /\ IF students = {}
       THEN \* the loop body never runs; commit of nothing
            /\ event' = Event("update_recs", TRUE, NULL, NULL)
            /\ UNCHANGED <<recommendations, dbLocked>>
       ELSE IF dbLocked
       THEN \* the first DELETE raises 'database is locked'
            /\ event' = Event("update_recs", FALSE, NULL, NULL)
            /\ UNCHANGED <<recommendations, dbLocked>>
       ELSE IF \E t \in students : course_recommendations_raise(courses, scores, t.student_id)
       THEN \* the exception leaves the handler before commit: the deletes and
            \* inserts made so far are rolled back when the connection is closed
            /\ event' = Event("update_recs", FALSE, NULL, NULL)
            /\ recommendations' = recommendations
            /\ dbLocked' = TRUE
       ELSE /\ event' = Event("update_recs", TRUE, NULL, NULL)
            /\ recommendations' = update_recommendations(recommendations, students, courses, scores)
            /\ dbLocked' = dbLocked

(***************************************************************************)
(* Pairing specification: uploads of four students' attempts in one        *)
(* course.                                                                 *)
(***************************************************************************)
EmailOf(sid) == sid     \* each student uploads under an address of their own

PairScoresOf(sid) ==
    IF sid = "s1" THEN {0, 80, 100} ELSE {80, 100}

PairDfRows ==
    {r \in [student_id : {"s1", "s2", "s3", "s4"}, email : {"s1", "s2", "s3", "s4"},
            course_id : {"c1"}, course_name : {"Physics"}, attempt_timestamp : {1},
            score : {0, 80, 100}, max_score : {100}] :
        r.email = EmailOf(r.student_id) /\ r.score \in PairScoresOf(r.student_id)}

\* files with and without the optional topic_tags column, and a file that
\* lacks a required column
PairColumnSets ==
    {required_columns, required_columns \cup {"topic_tags"},
     required_columns \ {"course_name"}}

PairUpload ==
    \E df \in Dfs(PairDfRows, PairMaxDf), cols \in PairColumnSets, gc \in GcPoints :
        /\ BagCardinality(scores) + Len(df) <= PairMaxRows
        /\ UploadFile(df, cols, gc)

PairNext == PairUpload \/ CollectGarbage

SpecPair == Init /\ [][PairNext]_vars

\* C1: the pairings store holds at most 2 distinct mentor_ids for every
\* (weak_student_id, course_id) pair, after any sequence of uploads and
\* pairing-generation runs.
C1_AtMostTwoMentorsPerPair ==
    \A p \in DOMAIN pairings :
        Cardinality({q.mentor_id : q \in {x \in DOMAIN pairings :
                        /\ x.weak_student_id = p.weak_student_id
                        /\ x.course_id = p.course_id}}) <= 2

\* C2: no two pairing rows share the same (course_id, weak_student_id,
\* mentor_id) triple, however often pairing generation has run.
C2_NoDuplicateTriple ==
    \A p \in DOMAIN pairings :
        BagCardinality(BagWhere(pairings, LAMBDA q :
            /\ q.course_id = p.course_id
            /\ q.weak_student_id = p.weak_student_id
            /\ q.mentor_id = p.mentor_id)) <= 1

(***************************************************************************)
(* Recommendation specification: uploads of two students' attempts in a    *)
(* 'Machine Learning' course and in a course marked out of 50 or 100, and  *)
(* runs of update_recommendations.                                         *)
(***************************************************************************)
RecDfRows ==
    {r \in [student_id : {"s1", "s2"}, email : {"s1", "s2"},
            course_id : {"c1", "c2"}, course_name : {"Machine Learning", "Physics"},
            attempt_timestamp : {1}, score : {20, 40, 90}, max_score : {50, 100}] :
        /\ r.email = EmailOf(r.student_id)
        /\ r.course_name = (IF r.course_id = "c1" THEN "Machine Learning" ELSE "Physics")
        /\ r.course_id = "c1" => (r.max_score = 100 /\ r.score \in {20, 90})
        /\ r.course_id = "c2" => r.score \in {20, 40}
        /\ r.student_id = "s2" => (r.course_id = "c2" /\ r.max_score = 100 /\ r.score = 20)}

RecUpload ==
    \E df \in Dfs(RecDfRows, RecMaxDf), has_tags \in BOOLEAN, gc \in GcPoints :
        /\ BagCardinality(scores) + Len(df) <= RecMaxRows
        /\ Upload(df, has_tags, gc)

RecNext == RecUpload \/ UpdateRecommendations \/ CollectGarbage

SpecRec == Init /\ [][RecNext]_vars

\* C3: the recommendations store holds at most one row per (student_id,
\* course_id), after any sequence of uploads and update_recommendations runs.
C3_OneRecommendationPerKey ==
    \A p \in DOMAIN recommendations :
        BagCardinality(BagWhere(recommendations, LAMBDA q :
            q.student_id = p.student_id /\ q.course_id = p.course_id)) <= 1

\* what a run of update_recommendations computes afresh from the attempts
FreshRecommendations ==
    LET sids == {t.student_id : t \in students}
    IN  BagSumOfBags(sids, [sid \in sids |->
            BagMap(SetToBag(weaknesses(courses, scores, sid)), LAMBDA w :
                [student_id |-> sid, course_id |-> w.course_id,
                 recommendation |-> <<"Study foundational topics in", w.course_name>>,
                 priority |-> "High"])])

\* C4: update_recommendations replaces and is idempotent: after a run no
\* recommendation remains that the run did not recompute from the attempts,
\* for any student, and a second run directly after a run, on the same
\* attempts, leaves the rows the first one left.
C4_UpdateReplacesAndIsIdempotent ==
    /\ [](event.op = "update_recs"
            => \A r \in DOMAIN recommendations :
                  /\ r \in DOMAIN FreshRecommendations
                  /\ CopiesIn(r, recommendations) <= CopiesIn(r, FreshRecommendations))
    /\ [][(event.op = "update_recs" /\ event'.op = "update_recs")
            => recommendations' = recommendations]_vars

(***************************************************************************)
(* Progress specification: uploads of one student's attempts, progress     *)
(* tracking and completion for two (student, course) pairs, one of which   *)
(* never has a stored attempt.                                             *)
(***************************************************************************)
ProgDfRows ==
    [student_id : {"s1"}, email : {"s1"}, course_id : {"c1"}, course_name : {"Physics"},
     attempt_timestamp : {1}, score : {0, 40, 50}, max_score : {100}]

ProgPairs == {<<"s1", "c1">>, <<"s2", "c1">>}

\* the statuses the schema documents (completion_status column)
CompletionStatuses == {"in_progress", "completed", "abandoned"}

ProgUpload ==
    \E df \in Dfs(ProgDfRows, ProgMaxRows), has_tags \in BOOLEAN, gc \in GcPoints :
        /\ BagCardinality(scores) + Len(df) <= ProgMaxRows
        /\ Upload(df, has_tags, gc)

\* a request without estimated_time at 0 percent, with one at 50 percent
ProgTrack ==
    \E p \in ProgPairs, pct \in {0, 50}, status \in CompletionStatuses :
        TrackProgress(p[1], p[2], pct, status, IF pct = 0 THEN NULL ELSE "2 hours")

ProgComplete ==
    \E p \in ProgPairs :
        /\ BagCardinality(improvement_tracking) < ProgMaxImp
        /\ MarkCompletion(p[1], p[2])

ProgNext == ProgUpload \/ ProgTrack \/ ProgComplete \/ CollectGarbage

SpecProg == Init /\ [][ProgNext]_vars

StatusesOf(cc, p) ==
    {r.completion_status : r \in {x \in DOMAIN cc : x.student_id = p[1] /\ x.course_id = p[2]}}

\* C5: every completion record has status in_progress, completed or
\* abandoned, and no operation moves a record out of completed or out of
\* abandoned.
C5_CompletionStateMachine ==
    /\ [](\A r \in DOMAIN course_completions : r.completion_status \in CompletionStatuses)
    /\ [][\A p \in ProgPairs :
            StatusesOf(course_completions, p) \cap {"completed", "abandoned"} # {}
                => StatusesOf(course_completions', p) = StatusesOf(course_completions, p)]_vars

ImprovementsOf(it, sid, cid) ==
    BagCardinality(BagWhere(it, LAMBDA r : r.student_id = sid /\ r.course_id = cid))

HasAttempt(sid, cid) ==
    \E r \in DOMAIN scores : r.student_id = sid /\ r.course_id = cid

C7_ImprovementsOnlyByCompletionAndKept ==
    [][/\ improvement_tracking' # improvement_tracking => event'.op = "complete"
       /\ improvement_tracking \sqsubseteq improvement_tracking']_vars

\* improvement records exist right after an upload or a progress update,
\* the operations that could have touched them
C7_Witness ==
    /\ improvement_tracking # EmptyBag
    /\ event.op \in {"upload", "track"}
    /\ course_completions # EmptyBag

\* C8: a record added on completion has initial_score = the minimum and
\* final_score = the maximum stored score of its pair, and every record has
\* improvement_percentage = (final - initial) / initial * 100, or 0 when
\* initial_score is 0.
C8_ImprovementValues ==
    /\ [][\A r \in DOMAIN improvement_tracking' :
            CopiesIn(r, improvement_tracking') > CopiesIn(r, improvement_tracking)
                => /\ \E a \in DOMAIN scores :
                        /\ a.student_id = r.student_id /\ a.course_id = r.course_id
                        /\ a.score = r.initial_score
                   /\ \E a \in DOMAIN scores :
                        /\ a.student_id = r.student_id /\ a.course_id = r.course_id
                        /\ a.score = r.final_score
                   /\ \A a \in DOMAIN scores :
                        (a.student_id = r.student_id /\ a.course_id = r.course_id)
                            => (r.initial_score <= a.score /\ a.score <= r.final_score)]_vars
    /\ [](\A r \in DOMAIN improvement_tracking :
            /\ r.improvement_percentage[2] > 0
            /\ IF r.initial_score = 0
               THEN r.improvement_percentage[1] = 0
               ELSE r.improvement_percentage[1] * r.initial_score
                      = (r.final_score - r.initial_score) * 100 * r.improvement_percentage[2])

\* initial 0, final 50 gave 0
C8_Witness ==
    \E r \in DOMAIN improvement_tracking :
        r.initial_score = 0 /\ r.final_score = 50 /\ r.improvement_percentage = <<0, 1>>

\* the averages one run of generate_mentor_pairings works with
CourseAvg(sc, sid, cid) == AvgScore(ScoresOfStudentCourse(sc, sid, cid))

\* c = min(100, max(50, 70 + 0.5 * (ma - wa))), over the integers
IsClampedCompatibility(c, ma, wa) ==
    LET bd == ma[2] * wa[2]
        num == 140 * bd + ma[1] * wa[2] - wa[1] * ma[2]     \* = 2 * bd * (70 + (ma - wa) / 2)
    IN  IF num > 200 * bd THEN c = <<100, 1>>
        ELSE IF num < 100 * bd THEN c = <<50, 1>>
        ELSE c[1] * 2 * bd = num * c[2]

AddedPairings ==
    {r \in DOMAIN pairings' : CopiesIn(r, pairings') > CopiesIn(r, pairings)}

WeakAvgsOf(r) ==
    {g.avg_score : g \in weak_courses(courses', scores', r.weak_student_id)}

\* C9: every pairing generate_mentor_pairings inserts has compatibility_score
\* = min(100, max(50, 70 + 0.5 * (mentor_avg - weak_avg))); the score is
\* within [50, 100], and among the rows of one run it does not decrease as
\* the gap mentor_avg - weak_avg grows.
C9_CompatibilityScore ==
    /\ [](\A r \in DOMAIN pairings :
            /\ r.compatibility_score[2] > 0
            /\ 50 * r.compatibility_score[2] <= r.compatibility_score[1]
            /\ r.compatibility_score[1] <= 100 * r.compatibility_score[2])
    /\ [][\A r \in AddedPairings :
            \E wa \in WeakAvgsOf(r) :
                /\ IsClampedCompatibility(r.compatibility_score,
                                          CourseAvg(scores', r.mentor_id, r.course_id), wa)
                /\ \A q \in AddedPairings :
                      \E wb \in WeakAvgsOf(q) :
                          /\ IsClampedCompatibility(q.compatibility_score,
                                                    CourseAvg(scores', q.mentor_id, q.course_id), wb)
                          /\ RatLe(RatSub(CourseAvg(scores', r.mentor_id, r.course_id), wa),
                                   RatSub(CourseAvg(scores', q.mentor_id, q.course_id), wb))
                                => RatLe(r.compatibility_score, q.compatibility_score)]_vars

\* mentor_avg 100 and weak_avg 0 gave exactly 100
C9_Witness ==
    \E r \in DOMAIN pairings :
        /\ r.compatibility_score = <<100, 1>>
        /\ CourseAvg(scores, r.mentor_id, r.course_id) = <<100, 1>>
        /\ CourseAvg(scores, r.weak_student_id, r.course_id) = <<0, 1>>

(***************************************************************************)
(* Classification specification: one score is drawn and handed to either   *)
(* rule-based classifier.                                                  *)
(***************************************************************************)
ProbeScores == (0 - 5)..ProbeMaxScore

ClassifyInit ==
    /\ students = {}
    /\ courses = {}
    /\ scores = EmptyBag
    /\ recommendations = EmptyBag
    /\ pairings = EmptyBag
    /\ course_completions = EmptyBag
    /\ improvement_tracking = EmptyBag
    /\ dbLocked = FALSE
    /\ event = Event("init", TRUE, NULL, NULL)
    /\ probe \in {[fn |-> "input", score |-> x, label |-> NULL] : x \in ProbeScores}

ClassifyPerformance ==
    /\ probe.fn = "input"
    /\ probe' = [fn |-> "classify_performance", score |-> probe.score,
                 label |-> classify_performance(probe.score)]
    /\ UNCHANGED <<tables, dbLocked, event>>

CategorizePerformance ==
    /\ probe.fn = "input"
    /\ probe' = [fn |-> "categorize_performance", score |-> probe.score,
                 label |-> categorize_performance(probe.score)]
    /\ UNCHANGED <<tables, dbLocked, event>>

ClassifyNext == ClassifyPerformance \/ CategorizePerformance

SpecClassify == ClassifyInit /\ [][ClassifyNext]_vars

LabelRank(label) == CASE label = "Poor" -> 1 [] label = "Medium" -> 2 [] label = "High" -> 3

CourseNameOf(co, cid) == (CHOOSE c \in co : c.course_id = cid).course_name

JoinedScores(co, sc, sid) ==
    BagWhere(ScoresOfStudent(sc, sid), LAMBDA r : \E c \in co : c.course_id = r.course_id)

OrderedByTimestamp(B) ==
    {s \in [1..BagCardinality(B) -> DOMAIN B] :
        /\ BagOfSeq(s) = B
        /\ \A i \in 1..(Len(s) - 1) : s[i].attempt_timestamp <= s[i + 1].attempt_timestamp}

\* (latest_score / max_score) * 100 if max_score > 0 else 0
analysis_percentage(latest_score, max_score) ==
    IF max_score > 0 THEN Rat(latest_score * 100, max_score) ELSE RatInt(0)

RECURSIVE RatSum(_, _)
RatSum(S, f) ==
    IF S = {} THEN RatInt(0)
    ELSE LET x == CHOOSE y \in S : TRUE
         IN  RatAdd(f[x], RatSum(S \ {x}, f))

\* rows: the ordered query result.  The lists of the result are sets here.
analyze_student_performance(co, sid, rows) ==
    LET name(r) == CourseNameOf(co, r.course_id)
        names == {name(rows[i]) : i \in 1..Len(rows)}
        course_data(n) == SelectSeq(rows, LAMBDA r : name(r) = n)
        latest_score(n) == course_data(n)[Len(course_data(n))].score
        first_score(n) == course_data(n)[1].score
        avg_score(n) == AvgScore(BagOfSeq(course_data(n)))
        max_score(n) == course_data(n)[1].max_score
        pct(n) == analysis_percentage(latest_score(n), max_score(n))
        entry(n) == [course |-> n, score |-> latest_score(n), percentage |-> pct(n)]
        overall_change == rows[Len(rows)].score - rows[1].score
    IN  [fn |-> "analyze_student_performance",
         student_id |-> sid,
         strengths |-> {entry(n) : n \in {m \in names : RatLe(RatInt(75), pct(m))}},
         weaknesses |-> {entry(n) : n \in {m \in names :
                            ~RatLe(RatInt(75), pct(m)) /\ RatLt(pct(m), RatInt(60))}},
         improvement_areas |->
             {[course |-> n, first_score |-> first_score(n), last_score |-> latest_score(n),
               improvement |-> latest_score(n) - first_score(n)] :
                 n \in {m \in names : Len(course_data(m)) > 1
                                      /\ latest_score(m) - first_score(m) < 0 - 10}},
         overall_performance |->
             IF rows = <<>> THEN RatInt(0)
             ELSE RatMul(RatSum(names, [n \in names |-> avg_score(n)]),
                         Rat(1, Cardinality(names))),
         performance_trend |->
             IF rows = <<>> THEN "stable"
             ELSE IF overall_change > 10 THEN "increasing"
             ELSE IF overall_change < 0 - 10 THEN "decreasing"
             ELSE "stable"]

\* GET of a student's analysis: a read, which a stale write lock does not block
AnalyzeStudent(sid) ==
    /\ \E rows \in OrderedByTimestamp(JoinedScores(courses, scores, sid)) :
           probe' = analyze_student_performance(courses, sid, rows)
    /\ event' = Event("analyze", TRUE, sid, NULL)
    /\ UNCHANGED <<tables, dbLocked>>

StrengthsWeaknesses(sid) ==
    /\ probe' = [fn |-> "get_student_strengths_weaknesses", student_id |-> sid,
                 strengths |-> strengths(courses, scores, sid),
                 weaknesses |-> weaknesses(courses, scores, sid)]
    /\ event' = Event("strengths_weaknesses", TRUE, sid, NULL)
    /\ UNCHANGED <<tables, dbLocked>>

\* ml_course_recommendation_ml, 'courses the current student is weak in':
\* one test per attempt row
ml_weak_courses(co, sc, sid) ==
    {r.course_id : r \in {q \in DOMAIN JoinedScores(co, sc, sid) :
        q.max_score > 0 /\ RatLt(Rat(q.score * 100, q.max_score), RatInt(60))}}

(***************************************************************************)
(* Analysis specification: uploads of one student's attempts in one        *)
(* course, at two timestamps and marked out of 0, 50 or 100, and reads of  *)
(* the student's strengths and weaknesses.                                 *)
(***************************************************************************)
AnDfRows ==
    {r \in [student_id : {"s1"}, email : {"s1"}, course_id : {"c1"},
            course_name : {"Physics"}, attempt_timestamp : {1, 2},
            score : {50, 90}, max_score : {0, 50, 100}] :
        /\ r.max_score = 0 => (r.score = 50 /\ r.attempt_timestamp = 1)
        /\ r.attempt_timestamp = 2 => (r.score = 90 /\ r.max_score = 100)}

AnUpload ==
    \E df \in Dfs(AnDfRows, AnMaxDf), has_tags \in BOOLEAN, gc \in GcPoints :
        /\ BagCardinality(scores) + Len(df) <= AnMaxRows
        /\ Upload(df, has_tags, gc)

AnAnalyze == \E sid \in {"s1"} : AnalyzeStudent(sid)

AnStrengthsWeaknesses == \E sid \in {"s1"} : StrengthsWeaknesses(sid)

AnNext == AnUpload \/ AnAnalyze \/ AnStrengthsWeaknesses \/ CollectGarbage

SpecAnalyze == Init /\ [][AnNext]_vars

\* the attempts of a student in a course that can be the latest one
LatestAttempts(co, sc, sid, cid) ==
    LET mine == DOMAIN BagWhere(JoinedScores(co, sc, sid), LAMBDA r : r.course_id = cid)
    IN  {r \in mine : \A q \in mine : q.attempt_timestamp <= r.attempt_timestamp}

AttemptPercentage(r) == analysis_percentage(r.score, r.max_score)

CoursesOfStudent(co, sc, sid) == {r.course_id : r \in DOMAIN JoinedScores(co, sc, sid)}

\* the course ids a result lists (analyze_student_performance names the
\* course; get_student_strengths_weaknesses gives its id)
ListedCourses(list) ==
    {c.course_id : c \in {d \in courses : \E e \in list :
        IF "course" \in DOMAIN e THEN e.course = d.course_name
        ELSE e.course_id = d.course_id}}

IsAnalysis ==
    /\ event.op \in {"analyze", "strengths_weaknesses"}
    /\ probe.fn \in {"analyze_student_performance", "get_student_strengths_weaknesses"}

\* C11: the strength/weakness decision of a course uses the latest attempt's
\* score as a percentage of max_score, never the average: the course is a
\* strength iff that percentage is >= 75, a weakness iff it is < 60, neither
\* in between, in both analysis functions (stated for the courses whose
\* attempts all have a positive max_score).
C11_LatestAttemptDecides ==
    IsAnalysis =>
        \A cid \in {c \in CoursesOfStudent(courses, scores, probe.student_id) :
                      \A r \in DOMAIN JoinedScores(courses, scores, probe.student_id) :
                          r.course_id = c => r.max_score > 0} :
            LET latest == LatestAttempts(courses, scores, probe.student_id, cid)
                high(r) == RatLe(RatInt(75), AttemptPercentage(r))
                low(r) == RatLt(AttemptPercentage(r), RatInt(60))
            IN  /\ (\A r \in latest : high(r)) => cid \in ListedCourses(probe.strengths)
                /\ cid \in ListedCourses(probe.strengths) => \E r \in latest : high(r)
                /\ (\A r \in latest : low(r)) => cid \in ListedCourses(probe.weaknesses)
                /\ cid \in ListedCourses(probe.weaknesses) => \E r \in latest : low(r)

\* C12: the strengths and the weaknesses returned for a student are
\* disjoint: no course is in both lists, in either analysis function.
C12_StrengthsWeaknessesDisjoint ==
    IsAnalysis =>
        ListedCourses(probe.strengths) \cap ListedCourses(probe.weaknesses) = {}

\* C20: a course whose max_score is <= 0 counts as 0% and so as a weakness
\* in every path that converts a score to a percentage; it is never skipped.
C20_ZeroMaxScoreIsWeakness ==
    /\ IsAnalysis =>
           \A r \in DOMAIN JoinedScores(courses, scores, probe.student_id) :
               (\A q \in DOMAIN JoinedScores(courses, scores, probe.student_id) :
                    q.course_id = r.course_id => q.max_score <= 0)
                   => r.course_id \in ListedCourses(probe.weaknesses)
    /\ \A t \in students : \A r \in DOMAIN JoinedScores(courses, scores, t.student_id) :
           r.max_score <= 0 => r.course_id \in ml_weak_courses(courses, scores, t.student_id)

(***************************************************************************)
(* Attempt aggregation: DataProcessor.process_student_data                 *)
(* (ml_engine/data_processor.py) and process_student_data                  *)
(* (process_data.py), called without a feedback file.  A dataset is the    *)
(* set of its column names, after clean_data has standardised and renamed  *)
(* them, and the sequence of its rows.  A score cell is a number, a text   *)
(* or missing.  A float is a rational; NaN is <<0, 0>>.  The standard      *)
(* deviation is represented by its square, the sample variance.            *)
(***************************************************************************)
NaN == <<0, 0>>
IsNaN(x) == x[2] = 0

\* pd.to_numeric(errors='coerce')
to_numeric(cell) == IF cell.kind = "number" THEN RatInt(cell.val) ELSE NaN

fillna(x, value) == IF IsNaN(x) THEN RatInt(value) ELSE x

\* the score column as clean_data leaves it, with the NaN cells kept
clean_score_coerce_only(cell) == to_numeric(cell)

\* clean_data: to_numeric(errors='coerce'), then fillna(0)
clean_score(cell) == fillna(to_numeric(cell), 0)

clean_data(cols, rows) ==
    IF "score" \in cols
    THEN [i \in 1..Len(rows) |-> [rows[i] EXCEPT !.score = clean_score(rows[i].score)]]
    ELSE rows

\* pandas aggregates skip NaN cells
ValidScores(group) ==
    LET nums == SelectSeq(group, LAMBDA r : ~IsNaN(r.score))
    IN  [i \in 1..Len(nums) |-> nums[i].score]

RECURSIVE SeqSum(_)
SeqSum(s) == IF s = <<>> THEN RatInt(0) ELSE RatAdd(Head(s), SeqSum(Tail(s)))

RECURSIVE SeqMax(_)
SeqMax(s) == IF Len(s) = 1 THEN s[1] ELSE RatMax(Head(s), SeqMax(Tail(s)))

agg_max(group) == IF ValidScores(group) = <<>> THEN NaN ELSE SeqMax(ValidScores(group))

agg_count(group) == Len(ValidScores(group))

agg_mean(group) ==
    IF ValidScores(group) = <<>> THEN NaN
    ELSE RatMul(SeqSum(ValidScores(group)), Rat(1, agg_count(group)))

\* square of the sample standard deviation (ddof = 1); NaN below two values
agg_std(group) ==
    LET v == ValidScores(group)
        n == Len(v)
        sq == [i \in 1..n |-> RatMul(v[i], v[i])]
    IN  IF n < 2 THEN NaN
        ELSE RatMul(RatSub(RatMul(RatInt(n), SeqSum(sq)), RatMul(SeqSum(v), SeqSum(v))),
                    Rat(1, n * (n - 1)))

agg_last(group) ==
    LET v == ValidScores(group) IN IF v = <<>> THEN NaN ELSE v[Len(v)]

\* groupby(group_cols): the rows of each combination of key values, in the
\* order of the frame
GroupKey(group_cols, r) == [c \in group_cols |-> r[c]]

GroupKeys(group_cols, rows) == {GroupKey(group_cols, rows[i]) : i \in 1..Len(rows)}

GroupRows(group_cols, rows, key) ==
    SelectSeq(rows, LAMBDA r : GroupKey(group_cols, r) = key)

\* sort_values(by=['email', 'course_name', 'attempt_timestamp']) is stable:
\* within a group (one email, one course_name) the rows come by timestamp
\* and, at equal timestamps, in input order
RECURSIVE SortByTimestamp(_)
SortByTimestamp(rows) ==
    IF rows = <<>> THEN <<>>
    ELSE LET first == CHOOSE i \in 1..Len(rows) :
                 /\ \A j \in 1..Len(rows) :
                        rows[i].attempt_timestamp <= rows[j].attempt_timestamp
                 /\ \A j \in 1..(i - 1) :
                        rows[j].attempt_timestamp # rows[i].attempt_timestamp
             rest == [j \in 1..(Len(rows) - 1) |-> IF j < first THEN rows[j] ELSE rows[j + 1]]
         IN  <<rows[first]>> \o SortByTimestamp(rest)

AggError(type, names) == [type |-> type, names |-> names]

AggResult(fn, error, summary) == [fn |-> fn, error |-> error, summary |-> summary]

NoError == AggError("none", {})

\* DataProcessor.process_student_data
data_processor_process_student_data(cols, raw_rows) ==
    LET fn == "DataProcessor.process_student_data"
        rows == clean_data(cols, raw_rows)
        possible_ids == {"student_id", "email", "name", "course_name"}
        group_cols == possible_ids \cap cols
        sorted(group) ==
            IF "attempt_timestamp" \in cols THEN SortByTimestamp(group) ELSE group
        row(key) ==
            LET group == sorted(GroupRows(group_cols, rows, key))
            IN  [key |-> key,
                 best_score |-> agg_max(group),
                 average_score |-> agg_mean(group),
                 attempts |-> agg_count(group),
                 std_score |-> fillna(agg_std(group), 0),
                 latest_score |-> agg_last(group)]
    IN  IF group_cols = {}
        THEN AggResult(fn, AggError("ValueError", {"student_id", "email", "name"}), {})
        ELSE IF "attempt_timestamp" \in cols /\ ~({"email", "course_name"} \subseteq cols)
        THEN AggResult(fn, AggError("KeyError", {"email", "course_name"} \ cols), {})
        ELSE IF "score" \notin cols
        THEN AggResult(fn, AggError("KeyError", {"score"}), {})
        ELSE AggResult(fn, NoError, {row(key) : key \in GroupKeys(group_cols, rows)})

\* process_student_data of process_data.py
process_student_data(cols, raw_rows) ==
    LET fn == "process_student_data"
        rows == clean_data(cols, raw_rows)
        required_cols == {"student_id", "name", "course_name", "score"}
        missing_cols == required_cols \ cols
        group_cols == {"student_id", "name", "course_name", "email"}
        row(key) ==
            LET group == GroupRows(group_cols, rows, key)
            IN  [key |-> key,
                 best_score |-> agg_max(group),
                 average_score |-> agg_mean(group),
                 attempts |-> agg_count(group),
                 \* NaN fails both comparisons of categorize_performance
                 performance |-> IF IsNaN(agg_max(group)) THEN "High"
                                 ELSE categorize_performance(agg_max(group)[1])]
    IN  IF missing_cols # {}
        THEN AggResult(fn, AggError("ValueError", missing_cols), {})
        ELSE IF ~(group_cols \subseteq cols)
        THEN AggResult(fn, AggError("KeyError", group_cols \ cols), {})
        ELSE AggResult(fn, NoError, {row(key) : key \in GroupKeys(group_cols, rows)})

(***************************************************************************)
(* Aggregation specification: one dataset, chosen initially, handed to     *)
(* both aggregators.                                                       *)
(***************************************************************************)
AggAllColumns ==
    {"student_id", "name", "email", "course_name", "score", "attempt_timestamp"}

AggColumnSets ==
    {AggAllColumns, AggAllColumns \ {"attempt_timestamp"}}
    \cup {AggAllColumns \ {"attempt_timestamp", c} :
            c \in {"student_id", "course_name", "score", "email"}}
    \cup {{"score"}}

AggCells == {[kind |-> "number", val |-> 50], [kind |-> "number", val |-> 90],
             [kind |-> "text", val |-> 0], [kind |-> "missing", val |-> 0]}

AggRows ==
    {r \in [student_id : {"s1", "s2"}, name : {"s1", "s2"}, email : {"s1", "s2"},
            course_name : {"Physics"}, score : AggCells, attempt_timestamp : {1, 2}] :
        /\ r.name = r.student_id
        /\ r.email = EmailOf(r.student_id)
        /\ r.student_id = "s2" => (r.score.kind = "number" /\ r.attempt_timestamp = 1)}

AggInit ==
    /\ students = {}
    /\ courses = {}
    /\ scores = EmptyBag
    /\ recommendations = EmptyBag
    /\ pairings = EmptyBag
    /\ course_completions = EmptyBag
    /\ improvement_tracking = EmptyBag
    /\ dbLocked = FALSE
    /\ \E cols \in AggColumnSets, rows \in Dfs(AggRows, AggMaxLen) :
           /\ event = [op |-> "dataset", columns |-> cols, rows |-> rows]
           /\ probe = NoProbe

DataProcessorProcess ==
    /\ event.op = "dataset"
    /\ probe' = data_processor_process_student_data(event.columns, event.rows)
    /\ UNCHANGED <<tables, dbLocked, event>>

ProcessStudentData ==
    /\ event.op = "dataset"
    /\ probe' = process_student_data(event.columns, event.rows)
    /\ UNCHANGED <<tables, dbLocked, event>>

AggNext == DataProcessorProcess \/ ProcessStudentData

SpecAggregate == AggInit /\ [][AggNext]_vars

IsSummary ==
    /\ event.op = "dataset"
    /\ probe.fn \in {"DataProcessor.process_student_data", "process_student_data"}
    /\ probe.error.type = "none"

\* the attempts of a (student, course) pair in the dataset, a non-numeric
\* score read as 0
PairScores(sid, course) ==
    LET mine == SelectSeq(event.rows, LAMBDA r : r.student_id = sid /\ r.course_name = course)
    IN  [i \in 1..Len(mine) |->
            IF mine[i].score.kind = "number" THEN mine[i].score.val ELSE 0]

RECURSIVE IntSum(_)
IntSum(s) == IF s = <<>> THEN 0 ELSE Head(s) + IntSum(Tail(s))

DatasetPairs == {<<event.rows[i].student_id, event.rows[i].course_name>> :
                    i \in 1..Len(event.rows)}

SummariesOf(sid, course) ==
    {s \in probe.summary : s.key["student_id"] = sid /\ s.key["course_name"] = course}

\* C13: aggregation yields for every (student, course) group one summary
\* whose best_score is the maximum, whose attempt count is the number of
\* attempts, whose average is the mean, and whose score_stddev is 0 when the
\* group has one attempt.
C13_SummaryPerGroup ==
    (IsSummary /\ {"student_id", "course_name"} \subseteq event.columns) =>
        \A p \in DatasetPairs :
            LET v == PairScores(p[1], p[2])
            IN  /\ Cardinality(SummariesOf(p[1], p[2])) = 1
                /\ \A s \in SummariesOf(p[1], p[2]) :
                       /\ \E i \in 1..Len(v) : s.best_score = RatInt(v[i])
                       /\ \A i \in 1..Len(v) : RatLe(RatInt(v[i]), s.best_score)
                       /\ s.attempts = Len(v)
                       /\ s.average_score = Rat(IntSum(v), Len(v))
                       /\ "std_score" \in DOMAIN s
                       /\ Len(v) = 1 => s.std_score = RatInt(0)

\* C18: aggregating a dataset without the student identifier, the course
\* identifier or the score column fails with a validation error that names
\* the missing fields, and no summary is produced.
C18_MissingColumnsRejected ==
    (/\ event.op = "dataset"
     /\ probe.fn \in {"DataProcessor.process_student_data", "process_student_data"}
     /\ {"student_id", "course_name", "score"} \ event.columns # {}) =>
        /\ probe.error.type = "ValueError"
        /\ ({"student_id", "course_name", "score"} \ event.columns) \subseteq probe.error.names
        /\ probe.summary = {}

\* the dataset with every missing or non-numeric score cell replaced by 0
ZeroedRows(rows) ==
    [i \in 1..Len(rows) |->
        IF rows[i].score.kind = "number" THEN rows[i]
        ELSE [rows[i] EXCEPT !.score = [kind |-> "number", val |-> 0]]]

HasBadScore == \E i \in 1..Len(event.rows) : event.rows[i].score.kind # "number"

\* C19: an attempt whose score is missing or non-numeric is kept with score
\* 0: the result, summary or failure, is the one of the dataset in which the
\* cell holds 0, and every attempt is counted in its group.
C19_BadScoreCountsAsZero ==
    (event.op = "dataset" /\ probe.fn # "none") =>
        /\ probe.fn = "DataProcessor.process_student_data" =>
               probe = data_processor_process_student_data(event.columns, ZeroedRows(event.rows))
        /\ probe.fn = "process_student_data" =>
               probe = process_student_data(event.columns, ZeroedRows(event.rows))
        /\ \A s \in probe.summary :
               s.attempts = Len(GroupRows(DOMAIN s.key, event.rows, s.key))

\* two attempts of one pair, one with a text score and one with 50, summed
\* up as two attempts of mean 25 and maximum 50
C19_Witness ==
    /\ IsSummary
    /\ HasBadScore
    /\ \E s \in probe.summary :
           s.attempts = 2 /\ s.average_score = RatInt(25) /\ s.best_score = RatInt(50)

(***************************************************************************)
(* Simple mentor matching: MentorMatcher.match_mentors_simple              *)
(* (ml_engine/mentor_matcher.py) and match_mentors (ml_analyzer.py).  The  *)
(* frame is a sequence of summary rows; has_email says whether it has an   *)
(* email column.                                                           *)
(***************************************************************************)
RECURSIVE UniqueInOrder(_, _)
UniqueInOrder(s, seen) ==
    IF s = <<>> THEN <<>>
    ELSE IF Head(s) \in seen THEN UniqueInOrder(Tail(s), seen)
    ELSE <<Head(s)>> \o UniqueInOrder(Tail(s), seen \cup {Head(s)})

RECURSIVE Flatten(_)
Flatten(ss) == IF ss = <<>> THEN <<>> ELSE Head(ss) \o Flatten(Tail(ss))

Waitlist == "Unassigned (Waitlist)"

\* row.get('email', 'N/A')
EmailOrNA(r, has_email) == IF has_email THEN r.email ELSE "N/A"

matched_pairings(course, mentors, mentees, has_email) ==
    [i \in 1..Min2(Len(mentors), Len(mentees)) |->
        [course |-> course,
         mentor_name |-> mentors[i].name,
         mentor_email |-> EmailOrNA(mentors[i], has_email),
         mentee_name |-> mentees[i].name,
         mentee_email |-> EmailOrNA(mentees[i], has_email)]]

unmatched_pairings_dropped(course, mentors, mentees, has_email) == <<>>

unmatched_pairings(course, mentors, mentees, has_email) ==
    IF Len(mentees) > Len(mentors)
    THEN [k \in 1..(Len(mentees) - Len(mentors)) |->
            [course |-> course,
             mentor_name |-> Waitlist,
             mentor_email |-> "N/A",
             mentee_name |-> mentees[Len(mentors) + k].name,
             mentee_email |-> EmailOrNA(mentees[Len(mentors) + k], has_email)]]
    ELSE <<>>

course_pairings(df, has_email, course) ==
    LET course_df == SelectSeq(df, LAMBDA r : r.course_name = course)
        mentors == SelectSeq(course_df, LAMBDA r : r.performance = "High")
        mentees == SelectSeq(course_df, LAMBDA r : r.performance = "Poor")
    IN  matched_pairings(course, mentors, mentees, has_email)
        \o unmatched_pairings(course, mentors, mentees, has_email)

unique_courses(df) == UniqueInOrder([i \in 1..Len(df) |-> df[i].course_name], {})

match_mentors_simple(df, has_email) ==
    Flatten([c \in 1..Len(unique_courses(df)) |->
                course_pairings(df, has_email, unique_courses(df)[c])])

match_mentors(df, has_email) ==
    Flatten([c \in 1..Len(unique_courses(df)) |->
                course_pairings(df, has_email, unique_courses(df)[c])])

(***************************************************************************)
(* Matching specification: one frame, chosen initially, with one row per   *)
(* student, handed to both matchers.                                       *)
(***************************************************************************)
MatchNames == <<"n1", "n2", "n3", "n4", "n5", "n6">>

MatchFrames ==
    UNION {{[i \in 1..n |-> [name |-> MatchNames[i], email |-> MatchNames[i],
                             course_name |-> f[i][1], performance |-> f[i][2]]] :
              f \in [1..n -> {"Physics", "Maths"} \X {"High", "Medium", "Poor"}]} :
           n \in 1..MatchMaxLen}

MatchInit ==
    /\ students = {}
    /\ courses = {}
    /\ scores = EmptyBag
    /\ recommendations = EmptyBag
    /\ pairings = EmptyBag
    /\ course_completions = EmptyBag
    /\ improvement_tracking = EmptyBag
    /\ dbLocked = FALSE
    /\ \E df \in MatchFrames, has_email \in BOOLEAN :
           /\ event = [op |-> "frame", df |-> df, has_email |-> has_email]
           /\ probe = NoProbe

MatchMentorsSimple ==
    /\ event.op = "frame"
    /\ probe' = [fn |-> "match_mentors_simple",
                 pairings |-> match_mentors_simple(event.df, event.has_email)]
    /\ UNCHANGED <<tables, dbLocked, event>>

MatchMentors ==
    /\ event.op = "frame"
    /\ probe' = [fn |-> "match_mentors",
                 pairings |-> match_mentors(event.df, event.has_email)]
    /\ UNCHANGED <<tables, dbLocked, event>>

MatchNext == MatchMentorsSimple \/ MatchMentors

SpecMatch == MatchInit /\ [][MatchNext]_vars

FrameRows(course, performance) ==
    SelectSeq(event.df, LAMBDA r : r.course_name = course /\ r.performance = performance)

OutputRows(course) == SelectSeq(probe.pairings, LAMBDA r : r.course = course)

\* C14: within each course the i-th weak student is paired with the i-th
\* strong student for every i up to min(#strong, #weak), every remaining weak
\* student gets one row with the placeholder mentor, so each course has one
\* output row per weak student, and no strong student mentors twice in a
\* course.
C14_SimpleMatching ==
    (event.op = "frame" /\ probe.fn \in {"match_mentors_simple", "match_mentors"}) =>
        \A course \in {"Physics", "Maths"} :
            LET weak == FrameRows(course, "Poor")
                strong == FrameRows(course, "High")
                out == OutputRows(course)
            IN  /\ Len(out) = Len(weak)
                /\ \A i \in 1..Len(out) :
                       /\ out[i].mentee_name = weak[i].name
                       /\ i <= Len(strong) => out[i].mentor_name = strong[i].name
                       /\ i > Len(strong) =>
                              out[i].mentor_name = Waitlist /\ out[i].mentor_email = "N/A"
                /\ \A i, j \in 1..Len(out) :
                       (i # j /\ out[i].mentor_name # Waitlist)
                           => out[i].mentor_name # out[j].mentor_name

\* three weak students and one strong student in a course: one real pairing
\* and two placeholder rows
C14_Witness ==
    /\ event.op = "frame"
    /\ probe.fn = "match_mentors_simple"
    /\ Len(FrameRows("Physics", "Poor")) = 3
    /\ Len(FrameRows("Physics", "High")) = 1
    /\ Len(OutputRows("Physics")) = 3
    /\ Cardinality({i \in 1..3 : OutputRows("Physics")[i].mentor_name = Waitlist}) = 2

(***************************************************************************)
(* Claims on the completion records, in the progress specification.        *)
(***************************************************************************)
CompletionsOf(cc, sid, cid) ==
    BagWhere(cc, LAMBDA r : r.student_id = sid /\ r.course_id = cid)

CompletionsOfOthers(cc, sid, cid) ==
    BagWhere(cc, LAMBDA r : ~(r.student_id = sid /\ r.course_id = cid))

\* C15: there is one completion record per tracked (student, course) pair;
\* after a track_course_completion call its completion_percentage, status
\* and estimated time are those of the call, and the records of the other
\* pairs are as before the call.
C15_OneRecordWithLatestValues ==
    /\ [](\A p \in ProgPairs :
              BagCardinality(CompletionsOf(course_completions, p[1], p[2])) <= 1)
    /\ [][(event'.op = "track" /\ event'.ok) =>
            LET mine == CompletionsOf(course_completions', event'.student_id, event'.course_id)
            IN  /\ BagCardinality(mine) = 1
                /\ \A r \in DOMAIN mine :
                       /\ r.completion_percentage = event'.completion_percentage
                       /\ r.completion_status = event'.status
                       /\ r.estimated_completion_time = event'.estimated_time
                /\ CompletionsOfOthers(course_completions', event'.student_id, event'.course_id)
                   = CompletionsOfOthers(course_completions, event'.student_id, event'.course_id)
          ]_vars

\* the record of (s1, c1) was just updated to 50 percent while (s2, c1)
\* has a record of its own
C15_Witness ==
    /\ event.op = "track" /\ event.ok
    /\ event.student_id = "s1" /\ event.completion_percentage = 50
    /\ \E r \in DOMAIN course_completions :
           /\ r.student_id = "s1"
           /\ r.completion_percentage = 50
           /\ r.estimated_completion_time = "2 hours"
           /\ r.completion_date # NULL
    /\ \E r \in DOMAIN course_completions : r.student_id = "s2"

\* C16: after mark_course_completed on a pair that has a completion record,
\* the record's status is 'completed' and its completion_date is set,
\* whatever its status and percentage were before.
C16_CompletedAfterMark ==
    [][(event'.op = "complete" /\ event'.ok) =>
          LET before == CompletionsOf(course_completions, event'.student_id, event'.course_id)
              after == CompletionsOf(course_completions', event'.student_id, event'.course_id)
          IN  before # EmptyBag =>
                  /\ after # EmptyBag
                  /\ \A r \in DOMAIN after :
                         r.completion_status = "completed" /\ r.completion_date # NULL
      ]_vars

\* a record marked completed although it was abandoned at 0 percent
C16_Witness ==
    /\ event.op = "complete" /\ event.ok
    /\ \E r \in DOMAIN course_completions :
           /\ r.student_id = event.student_id /\ r.course_id = event.course_id
           /\ r.completion_status = "completed"
           /\ r.completion_percentage = 0
           /\ r.completion_date = Now

(***************************************************************************)
(* Claim on the upload of a file that lacks required columns, in the       *)
(* pairing specification.                                                  *)
(***************************************************************************)
LacksRequiredColumns(e) ==
    /\ e.op = "upload"
    /\ "columns" \in DOMAIN e
    /\ required_columns \ e.columns # {}

\* C17: uploading a file that lacks a required column returns an error
\* response naming the missing columns and stores nothing: the students,
\* courses, scores, recommendations and pairings stores are as before.
C17_MissingColumnsStoreNothing ==
    [][LacksRequiredColumns(event') =>
          /\ ~event'.ok
          /\ event'.error.missing_columns = required_columns \ event'.columns
          /\ students' = students
          /\ courses' = courses
          /\ scores' = scores
          /\ recommendations' = recommendations
          /\ pairings' = pairings
      ]_vars

\* a file without course_name was just refused while attempts and pairings
\* are stored
C17_Witness ==
    /\ LacksRequiredColumns(event)
    /\ event.error.missing_columns = {"course_name"}
    /\ scores # EmptyBag
    /\ pairings # EmptyBag

(***************************************************************************)
(* get_most_improved_students(limit): improvement_tracking JOIN students,  *)
(* GROUP BY student, ORDER BY AVG(improvement_percentage) DESC, LIMIT.     *)
(* The order of students of equal average is left open by SQL.  (The name  *)
(* column of students is left out of the rows.)                            *)
(***************************************************************************)
ImprovementsOfStudent(it, sid) == BagWhere(it, LAMBDA r : r.student_id = sid)

\* AVG(i.improvement_percentage)
avg_improvement(it, sid) ==
    LET mine == ImprovementsOfStudent(it, sid)
        S == DOMAIN mine
        weighted == [r \in S |-> RatMul(r.improvement_percentage, RatInt(mine[r]))]
    IN  RatMul(RatSum(S, weighted), Rat(1, BagCardinality(mine)))

\* one row per student of the join
most_improved_groups(st, it) ==
    {[student_id |-> sid,
      avg_improvement |-> avg_improvement(it, sid),
      courses_improved |-> BagCardinality(ImprovementsOfStudent(it, sid))] :
        sid \in {r.student_id : r \in DOMAIN it} \cap {t.student_id : t \in st}}

OrderedDescending(G) ==
    {s \in [1..Cardinality(G) -> G] :
        /\ \A i, j \in 1..Cardinality(G) : i # j => s[i] # s[j]
        /\ \A i \in 1..(Cardinality(G) - 1) :
               RatLe(s[i + 1].avg_improvement, s[i].avg_improvement)}

\* the results the query may return
get_most_improved_students(st, it, limit) ==
    {SubSeq(s, 1, Min2(limit, Len(s))) : s \in OrderedDescending(most_improved_groups(st, it))}

\* GET of the most improved students: a read
MostImproved(limit) ==
    /\ \E res \in get_most_improved_students(students, improvement_tracking, limit) :
           probe' = [fn |-> "get_most_improved_students", limit |-> limit, result |-> res]
    /\ event' = Event("most_improved", TRUE, NULL, NULL)
    /\ UNCHANGED <<tables, dbLocked>>

(***************************************************************************)
(* Store specification: uploads of two students' attempts in one course,   *)
(* where the second student may upload under the first one's email         *)
(* address, completions and reads of the most improved students.  Every    *)
(* score is at least 60, so no upload reaches the recommendation branch of *)
(* generate_initial_analytics.                                             *)
(***************************************************************************)
StoreDfRows ==
    {r \in [student_id : {"s1", "s2"}, email : {"s1", "s2"}, course_id : {"c1"},
            course_name : {"Physics"}, attempt_timestamp : {1},
            score : {60, 66, 84}, max_score : {100}] :
        /\ r.student_id = "s1" => (r.email = "s1" /\ r.score \in {60, 84})
        /\ r.student_id = "s2" => r.score \in {60, 66}
        /\ r.score = 66 => r.email = "s2"}

StoreUpload ==
    \E df \in Dfs(StoreDfRows, StoreMaxDf), has_tags \in BOOLEAN :
        /\ BagCardinality(scores) + Len(df) <= StoreMaxRows
        /\ Upload(df, has_tags, "none")

StoreComplete ==
    \E sid \in {"s1", "s2"} :
        /\ BagCardinality(improvement_tracking) < StoreMaxImp
        /\ MarkCompletion(sid, "c1")

StoreMostImproved == \E limit \in {1, 5} : MostImproved(limit)

StoreNext == StoreUpload \/ StoreComplete \/ StoreMostImproved

SpecStore == Init /\ [][StoreNext]_vars

StudentsWithImprovement == {r.student_id : r \in DOMAIN improvement_tracking}

\* C21: get_most_improved_students(limit) returns at most limit entries, one
\* per student having at least one ImprovementRecord, each with the mean
\* improvement_percentage of the student's records, in non-increasing order
\* of that mean.
C21_MostImprovedRanking ==
    (event.op = "most_improved" /\ probe.fn = "get_most_improved_students") =>
        LET res == probe.result
        IN  /\ Len(res) = Min2(probe.limit, Cardinality(StudentsWithImprovement))
            /\ \A i, j \in 1..Len(res) : i # j => res[i].student_id # res[j].student_id
            /\ \A i \in 1..Len(res) :
                   /\ res[i].student_id \in StudentsWithImprovement
                   /\ res[i].avg_improvement =
                          avg_improvement(improvement_tracking, res[i].student_id)
            /\ \A i \in 1..(Len(res) - 1) :
                   RatLe(res[i + 1].avg_improvement, res[i].avg_improvement)
            /\ \A sid \in StudentsWithImprovement :
                   (\A i \in 1..Len(res) : res[i].student_id # sid) =>
                       \A i \in 1..Len(res) :
                           RatLe(avg_improvement(improvement_tracking, sid),
                                 res[i].avg_improvement)

\* C30: every stored attempt refers to stored entities: its student_id is
\* the student_id of a students row and its course_id the course_id of a
\* courses row.
C30_AttemptsReferToStoredEntities ==
    \A r \in DOMAIN scores :
        /\ \E t \in students : t.student_id = r.student_id
        /\ \E c \in courses : c.course_id = r.course_id

\* C22: stored attempts are append-only: no operation modifies or deletes a
\* scores row, so every attempt once stored is present in every later state.
C22_AttemptsAppendOnly ==
    [][scores \sqsubseteq scores']_vars

\* attempts are stored and a recommendation update has just replaced the
\* recommendations
C22_Witness ==
    /\ event.op = "update_recs" /\ event.ok
    /\ BagCardinality(scores) >= 2
    /\ recommendations # EmptyBag

\* C28: an upload of a well-formed file runs to completion with a success
\* response, and the connection of generate_initial_analytics does not stay
\* behind holding the write lock, whatever the averages of the file are.
C28_UploadAlwaysCompletes ==
    (event.op = "upload" /\ "columns" \notin DOMAIN event) => (event.ok /\ ~dbLocked)

\* C29: whenever an ImprovementRecord exists for a (student, course) pair, a
\* completion record of that pair exists and its status is 'completed'.
C29_ImprovementImpliesCompleted ==
    \A i \in DOMAIN improvement_tracking :
        /\ CompletionsOf(course_completions, i.student_id, i.course_id) # EmptyBag
        /\ \A r \in DOMAIN CompletionsOf(course_completions, i.student_id, i.course_id) :
               r.completion_status = "completed"

(***************************************************************************)
(* CourseRecommender.recommend_from_weaknesses (ml_engine/recommender.py). *)
(* A subject or catalog keyword is the sequence of its characters, so that *)
(* Python's substring test 'a in b' is computed; a course title is an      *)
(* atom.  The returned list, list(set(...)), has no defined order: it is   *)
(* represented by the bag of its elements.                                 *)
(***************************************************************************)
\* Python: a in b, for strings
IsSubstring(a, b) ==
    \E i \in 0..(Len(b) - Len(a)) : SubSeq(b, i + 1, i + Len(a)) = a

catalog ==
    <<
      [key |-> <<"P", "y", "t", "h", "o", "n">>,
       courses |-> <<"Python Fundamentals", "Data Structures in Python">>],
      [key |-> <<"J", "a", "v", "a">>,
       courses |-> <<"Java Programming I", "Object Oriented Programming">>],
      [key |-> <<"S", "Q", "L">>,
       courses |-> <<"Database Design", "SQL Masterclass">>],
      [key |-> <<"D", "a", "t", "a", " ", "S", "c", "i", "e", "n", "c", "e">>,
       courses |-> <<"Statistics for DS", "Intro to ML">>],
      [key |-> <<"C", "o", "m", "p", "u", "t", "e", "r", " ", "N", "e", "t", "w", "o", "r", "k", "s">>,
       courses |-> <<"Networking Basics", "TCP/IP Protocols">>],
      [key |-> <<"M", "a", "t", "h">>,
       courses |-> <<"Linear Algebra", "Calculus Refresher">>],
      [key |-> <<"W", "e", "b", " ", "D", "e", "v", "e", "l", "o", "p", "m", "e", "n", "t">>,
       courses |-> <<"HTML/CSS Bootcamp", "JavaScript Essentials">>],
      [key |-> <<"A", "l", "g", "o", "r", "i", "t", "h", "m", "s">>,
       courses |-> <<"Algorithms I", "Competitive Programming">>],
      [key |-> <<"O", "p", "e", "r", "a", "t", "i", "n", "g", " ", "S", "y", "s", "t", "e", "m", "s">>,
       courses |-> <<"OS Concepts", "Linux Admin">>],
      [key |-> <<"S", "e", "c", "u", "r", "i", "t", "y">>,
       courses |-> <<"Cybersecurity Basics", "Ethical Hacking">>]
    >>

Fallback == "General Study Skills Workshop"

\* matches = [courses for key, courses in catalog.items()
\*            if key in subject or subject in key], flattened
subject_matches(subject) ==
    Flatten([k \in 1..Len(catalog) |->
                IF IsSubstring(catalog[k].key, subject) \/ IsSubstring(subject, catalog[k].key)
                THEN catalog[k].courses ELSE <<>>])

\* the list before duplicates are removed
recommendations_list(weak_subjects) ==
    LET found == Flatten([i \in 1..Len(weak_subjects) |-> subject_matches(weak_subjects[i])])
    IN  IF found = <<>> /\ weak_subjects # <<>> THEN <<Fallback>> ELSE found

\* the list returned with its duplicates
recommend_from_weaknesses_with_duplicates(weak_subjects) ==
    BagOfSeq(recommendations_list(weak_subjects))

\* list(set(recommendations))
recommend_from_weaknesses(weak_subjects) ==
    LET recs == recommendations_list(weak_subjects)
    IN  SetToBag({recs[i] : i \in 1..Len(recs)})

(***************************************************************************)
(* Recommender specification: one list of weak subjects, chosen initially. *)
(***************************************************************************)
RecoSubjects ==
    {
<<"P", "y", "t", "h", "o", "n">>,
     <<"A", "d", "v", "a", "n", "c", "e", "d", " ", "J", "a", "v", "a">>,
     <<"S", "Q", "L">>,
     <<"M", "a", "t", "h">>,
     <<"Q">>,
     <<"P", "h", "y", "s", "i", "c", "s">>,
     <<"a", "t">>,
     <<>>}

RecoInit ==
    /\ students = {}
    /\ courses = {}
    /\ scores = EmptyBag
    /\ recommendations = EmptyBag
    /\ pairings = EmptyBag
    /\ course_completions = EmptyBag
    /\ improvement_tracking = EmptyBag
    /\ dbLocked = FALSE
    /\ \E weak_subjects \in {<<>>} \cup Dfs(RecoSubjects, RecoMaxLen) :
           /\ event = [op |-> "weaknesses", weaknesses |-> weak_subjects]
           /\ probe = NoProbe

RecommendFromWeaknesses ==
    /\ event.op = "weaknesses"
    /\ probe' = [fn |-> "recommend_from_weaknesses",
                 result |-> recommend_from_weaknesses(event.weaknesses)]
    /\ UNCHANGED <<tables, dbLocked, event>>

RecoNext == RecommendFromWeaknesses

SpecReco == RecoInit /\ [][RecoNext]_vars

\* the catalog keywords that match one of the weaknesses
MatchingKeys ==
    {k \in 1..Len(catalog) : \E i \in 1..Len(event.weaknesses) :
        \/ IsSubstring(catalog[k].key, event.weaknesses[i])
        \/ IsSubstring(event.weaknesses[i], catalog[k].key)}

\* C26: with a non-empty weakness list that matches no catalog keyword in
\* either direction the result is exactly the one fallback recommendation;
\* otherwise it is the duplicate-free union of the course lists of the
\* matching keywords, without the fallback.
C26_FallbackOrUnion ==
    (event.op = "weaknesses" /\ probe.fn = "recommend_from_weaknesses") =>
        /\ \A c \in DOMAIN probe.result : probe.result[c] = 1
        /\ IF event.weaknesses # <<>> /\ MatchingKeys = {}
           THEN DOMAIN probe.result = {Fallback}
           ELSE DOMAIN probe.result =
                    UNION {{catalog[k].courses[j] : j \in 1..Len(catalog[k].courses)} :
                             k \in MatchingKeys}

\* 'Advanced Java' named twice: the two Java courses, each once
C26_Witness ==
    /\ event.op = "weaknesses"
    /\ probe.fn = "recommend_from_weaknesses"
    /\ Len(event.weaknesses) = 2
    /\ event.weaknesses[1] = event.weaknesses[2]
    /\ DOMAIN probe.result = {"Java Programming I", "Object Oriented Programming"}

(***************************************************************************)
(* PerformanceAnalyzer.classify_students_kmeans                            *)
(* (ml_engine/performance_analyzer.py).  The frame is the sequence of its  *)
(* best_score values.  KMeans on one feature yields clusters that are      *)
(* intervals of the score axis; which intervals depends on the seeding, so *)
(* the fit is a choice over every assignment of centroid ranks 0..n-1 to   *)
(* the samples that is monotone in the score.                              *)
(***************************************************************************)
NaNLabel == "NaN"

\* kmeans.fit_predict(X) followed by np.argsort of the centroids: the rank
\* of each sample's cluster in the ascending order of the centroids
kmeans_ranks(best_scores, n_clusters) ==
    {r \in [1..Len(best_scores) -> 0..(n_clusters - 1)] :
        \A i, j \in 1..Len(best_scores) :
            best_scores[i] <= best_scores[j] => r[i] <= r[j]}

\* df['cluster'].map(cluster_map): a cluster missing from the map gives NaN
cluster_label(rank) ==
    CASE rank = 0 -> "Poor"
      [] rank = 1 -> "Medium"
      [] rank = 2 -> "High"
      [] OTHER -> NaNLabel

\* the set of possible outcomes of one call
classify_students_kmeans(best_scores, n_clusters) ==
    IF Len(best_scores) < n_clusters
    THEN {[error |-> "none",
           labels |-> [i \in 1..Len(best_scores) |-> classify_performance(best_scores[i])]]}
    ELSE IF n_clusters < 3
    THEN \* sorted_idx has n_clusters entries: sorted_idx[1] or sorted_idx[2]
         \* is out of bounds
         {[error |-> "IndexError", labels |-> <<>>]}
    ELSE {[error |-> "none",
           labels |-> [i \in 1..Len(best_scores) |-> cluster_label(r[i])]] :
             r \in kmeans_ranks(best_scores, n_clusters)}

(***************************************************************************)
(* Clustering specification: one frame and one cluster count, chosen       *)
(* initially.                                                              *)
(***************************************************************************)
KmScores == {40, 70, 90}

KmClusters == 1..KmMaxClusters

KmInit ==
    /\ students = {}
    /\ courses = {}
    /\ scores = EmptyBag
    /\ recommendations = EmptyBag
    /\ pairings = EmptyBag
    /\ course_completions = EmptyBag
    /\ improvement_tracking = EmptyBag
    /\ dbLocked = FALSE
    /\ \E best_scores \in {<<>>} \cup Dfs(KmScores, KmMaxLen), n \in KmClusters :
           /\ event = [op |-> "samples", best_scores |-> best_scores, n_clusters |-> n]
           /\ probe = NoProbe

ClassifyStudentsKmeans ==
    /\ event.op = "samples"
    /\ probe.fn = "none"
    /\ \E out \in classify_students_kmeans(event.best_scores, event.n_clusters) :
           probe' = [fn |-> "classify_students_kmeans", result |-> out]
    /\ UNCHANGED <<tables, dbLocked, event>>

KmNext == ClassifyStudentsKmeans

SpecKmeans == KmInit /\ [][KmNext]_vars

\* C27: with fewer samples than clusters every sample gets the rule-based
\* label of its best_score; with at least as many samples as clusters
\* (cluster counts below 3 included) the call raises nothing and returns a
\* label for every sample.
C27_KmeansDegradesGracefully ==
    (event.op = "samples" /\ probe.fn = "classify_students_kmeans") =>
        LET best == event.best_scores
            out == probe.result
        IN  /\ out.error = "none"
            /\ Len(out.labels) = Len(best)
            /\ IF Len(best) < event.n_clusters
               THEN \A i \in 1..Len(best) : out.labels[i] = classify_performance(best[i])
               ELSE \A i \in 1..Len(best) : out.labels[i] \in {"Poor", "Medium", "High"}

\* the fallback half of C27 alone
C27_FallbackIsRuleBased ==
    (event.op = "samples" /\ probe.fn = "classify_students_kmeans"
        /\ Len(event.best_scores) < event.n_clusters) =>
        /\ probe.result.error = "none"
        /\ probe.result.labels =
              [i \in 1..Len(event.best_scores) |-> classify_performance(event.best_scores[i])]

(***************************************************************************)
(* The similarity strategies ml_course_recommendation_ml and               *)
(* ml_mentor_matching_ml (app.py).  Both only read: their input is the     *)
(* list all_scores fetched from scores JOIN courses, a sequence of rows.   *)
(* A cosine similarity is kept as its square, an exact rational; scores    *)
(* are not negative, so the squares order as the similarities do.  Two     *)
(* students whose similarities are equal may come in either order out of   *)
(* np.argsort, and floating point may order them either way.               *)
(*                                                                         *)
(* pd.DataFrame(all_scores) is built from sqlite3.Row objects.  Whether    *)
(* the frame's columns carry the query's names is the library's doing:     *)
(* rows taken as plain sequences give the columns 0, 1, 2, ... and the     *)
(* pivot on 'student_id' raises KeyError.  Both outcomes are kept.         *)
(***************************************************************************)
FrameColumns == {"named", "positional"}

SimOutcome(error, selected, result) ==
    [error |-> error, selected |-> selected, result |-> result]

\* matrix.index
matrix_index(all_scores) == {all_scores[i].student_id : i \in 1..Len(all_scores)}

\* matrix.columns
matrix_columns(all_scores) == {all_scores[i].course_id : i \in 1..Len(all_scores)}

\* one cell of pivot_table(values='score', fill_value=0): the mean score
matrix_cell(all_scores, sid, cid) ==
    LET idx == {i \in 1..Len(all_scores) :
                   all_scores[i].student_id = sid /\ all_scores[i].course_id = cid}
    IN  IF idx = {} THEN RatInt(0)
        ELSE RatMul(RatSum(idx, [i \in idx |-> RatInt(all_scores[i].score)]),
                    <<1, Cardinality(idx)>>)

dot_product(all_scores, a, b) ==
    LET cs == matrix_columns(all_scores)
    IN  RatSum(cs, [c \in cs |-> RatMul(matrix_cell(all_scores, a, c),
                                        matrix_cell(all_scores, b, c))])

\* cosine_similarity(row of a, row of b), squared: (ab/aa) * (ab/bb), and 0
\* for a zero row
similarity_squared(all_scores, a, b) ==
    LET ab == dot_product(all_scores, a, b)
        aa == dot_product(all_scores, a, a)
        bb == dot_product(all_scores, b, b)
    IN  IF aa[1] = 0 \/ bb[1] = 0 THEN RatInt(0)
        ELSE RatMul(Rat(ab[1] * aa[2], ab[2] * aa[1]), Rat(ab[1] * bb[2], ab[2] * bb[1]))

\* np.argsort(similarities[0])[::-1]: the students in an order of
\* non-increasing similarity to the target
argsort_descending(all_scores, target) ==
    LET ix == matrix_index(all_scores)
        n == Cardinality(ix)
    IN  {p \in [1..n -> ix] :
            /\ \A i, j \in 1..n : i # j => p[i] # p[j]
            /\ \A i \in 1..(n - 1) :
                   RatLe(similarity_squared(all_scores, target, p[i + 1]),
                         similarity_squared(all_scores, target, p[i]))}

\* [::-1][1:k+1]: the sorted order without its first entry, cut to k
similar_students_idx(all_scores, target, k) ==
    {SubSeq(p, 2, Min2(k + 1, Len(p))) : p \in argsort_descending(all_scores, target)}

\* the weak courses of the target: a row with max_score > 0 below 60 percent
sim_weak_courses(student_scores) ==
    {student_scores[i].course_id : i \in
        {j \in 1..Len(student_scores) :
            /\ student_scores[j].max_score > 0
            /\ RatLt(Rat(student_scores[j].score * 100, student_scores[j].max_score),
                     RatInt(60))}}

\* the recommendations appended for one similar student, in row order
recommendations_of(all_scores, target, weak_ids, similar_student_id) ==
    LET similar_scores == SelectSeq(all_scores,
                              LAMBDA r : r.student_id = similar_student_id)
        good == SelectSeq(similar_scores,
                              LAMBDA r : r.course_id \in weak_ids /\ r.score > 75)
    IN  [i \in 1..Len(good) |->
            [course_id |-> good[i].course_id,
             course_name |-> good[i].course_name,
             recommended_because |-> "Similar students performed well in this course",
             similarity_score |->
                 similarity_squared(all_scores, target, similar_student_id)]]

RECURSIVE unique_recs(_, _)
unique_recs(recs, seen_courses) ==
    IF recs = <<>> THEN <<>>
    ELSE IF Head(recs).course_id \in seen_courses
    THEN unique_recs(Tail(recs), seen_courses)
    ELSE <<Head(recs)>> \o unique_recs(Tail(recs), seen_courses \cup {Head(recs).course_id})

\* every recommendation appended, duplicates kept, cut to 5
top_recommendations_with_duplicates(recs) == SubSeq(recs, 1, Min2(5, Len(recs)))

\* unique_recs[:5]
top_recommendations(recs) ==
    LET u == unique_recs(recs, {})
    IN  SubSeq(u, 1, Min2(5, Len(u)))

\* the possible outcomes of ml_course_recommendation_ml(student_id)
ml_course_recommendation_ml(all_scores, student_id, frame_columns) ==
    LET student_scores == SelectSeq(all_scores, LAMBDA r : r.student_id = student_id)
    IN  IF all_scores = <<>> \/ student_scores = <<>>
        THEN {SimOutcome("none", <<>>, <<>>)}
        ELSE IF frame_columns = "positional"
        THEN {SimOutcome("KeyError", <<>>, <<>>)}
        ELSE IF student_id \notin matrix_index(all_scores)
        THEN {SimOutcome("none", <<>>, <<>>)}
        ELSE {SimOutcome("none", sel,
                  top_recommendations(
                      Flatten([k \in 1..Len(sel) |->
                          recommendations_of(all_scores, student_id,
                                             sim_weak_courses(student_scores), sel[k])])))
                : sel \in similar_students_idx(all_scores, student_id, 5)}

\* the mentor query selects student_id, course_id and score only
mentor_query_row(r) ==
    [student_id |-> r.student_id, course_id |-> r.course_id, score |-> r.score]

\* strong_in_weak_courses of one candidate
strong_in_weak_courses(df, weak_ids, potential_mentor_id) ==
    Cardinality({i \in 1..Len(df) :
        /\ df[i].student_id = potential_mentor_id
        /\ df[i].course_id \in weak_ids
        /\ df[i].score > 75})

\* potential_mentors.sort(key=match_quality, reverse=True): stable
RECURSIVE sort_by_match_quality(_)
sort_by_match_quality(ms) ==
    IF ms = <<>> THEN <<>>
    ELSE LET best == CHOOSE i \in 1..Len(ms) :
                        /\ \A j \in 1..Len(ms) : RatLe(ms[j].match_quality, ms[i].match_quality)
                        /\ \A j \in 1..(i - 1) : RatLt(ms[j].match_quality, ms[i].match_quality)
         IN  <<ms[best]>> \o
             sort_by_match_quality(SubSeq(ms, 1, best - 1) \o SubSeq(ms, best + 1, Len(ms)))

\* the mentors of one selection; similarity_score and match_quality are
\* kept squared
ml_potential_mentors(all_scores, df, weak_student_id, weak_ids, sel) ==
    LET cand == SelectSeq(sel,
                    LAMBDA s : strong_in_weak_courses(df, weak_ids, s) > 0)
    IN  [k \in 1..Len(cand) |->
            LET n == strong_in_weak_courses(df, weak_ids, cand[k])
                sim == similarity_squared(all_scores, weak_student_id, cand[k])
            IN  [mentor_id |-> cand[k],
                 similarity_score |-> sim,
                 courses_mentored |-> n,
                 match_quality |-> RatMul(sim, RatInt(n * n))]]

\* the possible outcomes of ml_mentor_matching_ml(weak_student_id)
ml_mentor_matching_ml(all_scores, weak_student_id, frame_columns) ==
    LET df == [i \in 1..Len(all_scores) |-> mentor_query_row(all_scores[i])]
        weak_student_scores == SelectSeq(df, LAMBDA r : r.student_id = weak_student_id)
    IN  IF all_scores = <<>>
        THEN {SimOutcome("none", <<>>, <<>>)}
        ELSE IF frame_columns = "positional"
        THEN {SimOutcome("KeyError", <<>>, <<>>)}
        ELSE IF weak_student_id \notin matrix_index(all_scores)
        THEN {SimOutcome("none", <<>>, <<>>)}
        ELSE {IF \E i \in 1..Len(weak_student_scores) :
                    "max_score" \notin DOMAIN weak_student_scores[i]
              THEN \* score_row['max_score'] of a row without that column
                   SimOutcome("KeyError", sel, <<>>)
              ELSE LET ms == sort_by_match_quality(
                                 ml_potential_mentors(all_scores, df, weak_student_id,
                                     sim_weak_courses(weak_student_scores), sel))
                   IN  SimOutcome("none", sel, SubSeq(ms, 1, Min2(5, Len(ms))))
                : sel \in similar_students_idx(all_scores, weak_student_id, 10)}

(***************************************************************************)
(* Similarity specification: the fetched rows and the student asked for    *)
(* are chosen initially.                                                   *)
(***************************************************************************)
SimRow(sid, cid, name, score, max_score) ==
    [student_id |-> sid, course_id |-> cid, course_name |-> name,
     score |-> score, max_score |-> max_score]

SimRows ==
    {SimRow("s1", "c1", "Physics", 30, 100),
     SimRow("s1", "c2", "Chemistry", 40, 100),
     SimRow("s1", "c1", "Physics", 80, 200),
     SimRow("s2", "c1", "Physics", 90, 100),
     SimRow("s3", "c2", "Chemistry", 90, 100),
     SimRow("s3", "c1", "Physics", 90, 100)}

SimWideCourses == <<"c1", "c2", "c3", "c4", "c5", "c6">>

\* s1 weak in six courses in which s2 did well
SimWideFrame ==
    [i \in 1..12 |->
        IF i <= 6
        THEN SimRow("s1", SimWideCourses[i], "Physics", 30, 100)
        ELSE SimRow("s2", SimWideCourses[i - 6], "Physics", IF i = 12 THEN 80 ELSE 90, 100)]

SimInit ==
    /\ students = {}
    /\ courses = {}
    /\ scores = EmptyBag
    /\ recommendations = EmptyBag
    /\ pairings = EmptyBag
    /\ course_completions = EmptyBag
    /\ improvement_tracking = EmptyBag
    /\ dbLocked = FALSE
    /\ \E all_scores \in {<<>>, SimWideFrame} \cup Dfs(SimRows, SimMaxLen),
          sid \in {"s1", "s2"} :
           /\ event = [op |-> "all_scores", all_scores |-> all_scores, student_id |-> sid]
           /\ probe = NoProbe

MlCourseRecommendation ==
    /\ event.op = "all_scores"
    /\ probe.fn = "none"
    /\ \E fc \in FrameColumns :
         \E out \in ml_course_recommendation_ml(event.all_scores, event.student_id, fc) :
           probe' = [fn |-> "ml_course_recommendation_ml", frame_columns |-> fc,
                     outcome |-> out]
    /\ UNCHANGED <<tables, dbLocked, event>>

MlMentorMatching ==
    /\ event.op = "all_scores"
    /\ probe.fn = "none"
    /\ \E fc \in FrameColumns :
         \E out \in ml_mentor_matching_ml(event.all_scores, event.student_id, fc) :
           probe' = [fn |-> "ml_mentor_matching_ml", frame_columns |-> fc,
                     outcome |-> out]
    /\ UNCHANGED <<tables, dbLocked, event>>

SimNext == MlCourseRecommendation \/ MlMentorMatching

SpecSim == SimInit /\ [][SimNext]_vars

IsSimilarityCall ==
    /\ event.op = "all_scores"
    /\ probe.fn \in {"ml_course_recommendation_ml", "ml_mentor_matching_ml"}

ProducedBefore(a, b) == a[1] < b[1] \/ (a[1] = b[1] /\ a[2] < b[2])

\* the rows of selected similar students with a score above 75 in course c
ProducersOf(c) ==
    {a \in (1..Len(probe.outcome.selected)) \X (1..Len(event.all_scores)) :
        /\ event.all_scores[a[2]].student_id = probe.outcome.selected[a[1]]
        /\ event.all_scores[a[2]].course_id = c
        /\ event.all_scores[a[2]].score > 75}

FirstProducerOf(c) ==
    CHOOSE a \in ProducersOf(c) : \A b \in ProducersOf(c) : a = b \/ ProducedBefore(a, b)

\* the courses in which the student asked for has an attempt below 60 percent
StrugglingCourses ==
    {event.all_scores[i].course_id : i \in
        {j \in 1..Len(event.all_scores) :
            /\ event.all_scores[j].student_id = event.student_id
            /\ event.all_scores[j].max_score > 0
            /\ event.all_scores[j].score * 100 < 60 * event.all_scores[j].max_score}}

C24_OrderWitness ==
    /\ event.op = "all_scores"
    /\ probe.fn = "ml_course_recommendation_ml"
    /\ probe.frame_columns = "named"
    /\ Len(probe.outcome.result) = 2
    /\ FirstProducerOf(probe.outcome.result[2].course_id)[2]
          < FirstProducerOf(probe.outcome.result[1].course_id)[2]

\* six courses produced, five returned
C24_CapWitness ==
    /\ event.op = "all_scores"
    /\ probe.fn = "ml_course_recommendation_ml"
    /\ probe.frame_columns = "named"
    /\ Len(probe.outcome.result) = 5
    /\ Cardinality({c \in StrugglingCourses : ProducersOf(c) # {}}) = 6

\* the number of the student's struggling courses in which m scored above 75
CoursesMentoredBy(m) ==
    Cardinality({c \in StrugglingCourses :
        \E i \in 1..Len(event.all_scores) :
            /\ event.all_scores[i].student_id = m
            /\ event.all_scores[i].course_id = c
            /\ event.all_scores[i].score > 75})

\* C25: ml_mentor_matching_ml returns at most 5 mentors in non-increasing
\* order of match_quality = similarity_score * courses_mentored, where
\* courses_mentored counts the weak student's struggling courses in which
\* the candidate scored above 75, and is never 0.
C25_MentorRanking ==
    (event.op = "all_scores" /\ probe.fn = "ml_mentor_matching_ml"
        /\ probe.frame_columns = "named") =>
        LET res == probe.outcome.result
        IN  /\ probe.outcome.error = "none"
            /\ Len(res) <= 5
            /\ \A i \in 1..Len(res) :
                   /\ res[i].courses_mentored = CoursesMentoredBy(res[i].mentor_id)
                   /\ res[i].courses_mentored > 0
                   /\ res[i].match_quality =
                          RatMul(res[i].similarity_score,
                                 RatInt(res[i].courses_mentored * res[i].courses_mentored))
            /\ \A i \in 1..(Len(res) - 1) :
                   RatLe(res[i + 1].match_quality, res[i].match_quality)
====
